---- MODULE Spec2Model ----
(***************************************************************************)
(* Model of yaml-tftpl-lsp: the expression preprocessing                   *)
(* (src/parser/preprocessor.rs), the position mapping                      *)
(* (src/parser/expressions.rs), the YAML parse step (src/parser/yaml.rs),  *)
(* the diagnostic collector (src/diagnostics/yaml_errors.rs), the         *)
(* workflow validator (src/diagnostics/workflow_validator.rs with the      *)
(* keywords of src/schema/workflows.rs), the document handlers of the      *)
(* server (src/backend.rs) and the diagnostics pipeline of                 *)
(* tests/integration_tests.rs.                                             *)
(*                                                                         *)
(* A text is a sequence of bytes.  Each byte is a one-character string,    *)
(* except the two bytes of the one multi-byte character the model knows,   *)
(* written "e1" (lead byte) and "e2" (continuation byte).  Offsets, lines  *)
(* and columns are zero-indexed as in the source.                          *)
(***************************************************************************)
EXTENDS Integers, Sequences, FiniteSets, TLC

VARIABLES
    text,             \* the document text handed to preprocess_expressions
    pc,               \* "start", then "done" once preprocess_expressions
                      \* returned; for a hand-built map "new", "finalized"
                      \* or "modified"
    result,           \* the rewritten text
    expressions,      \* ExpressionMap::expressions
    position_deltas,  \* ExpressionMap::position_deltas
    query,            \* (line, column) of the last adjust_position call
    adjusted,         \* what that call returned
    within,           \* the last is_within_expression call and its value
    found,            \* the last find_by_placeholder call and its value
    parser,           \* what serde_yaml::from_str returned for result
    diagnostics,      \* DiagnosticCollector::diagnostics
    parse_result,     \* the ParseResult of parse_yaml
    documents,        \* Backend::documents
    handlers,         \* the handlers of the notifications taken so far
    published,        \* the publishDiagnostics notifications, in order
    call,             \* the last call made on the DiagnosticCollector
    scan              \* the locals of scan_expressions and of the
                      \* find_matching_brace call it is in, while it runs

mapVars == <<expressions, position_deltas>>

callVars == <<query, adjusted, within, found>>

parseVars == <<parser, diagnostics, parse_result>>

serverVars == <<documents, handlers, published>>

stepVars == <<call, scan>>

vars == <<text, pc, result, mapVars, callVars, parseVars, serverVars, stepVars>>

\* ------------------------------------------------------------------ bounds

\* Number of tokens an input text of Spec is built from.
MaxToks == 4
\* Number of tokens an input text of SpecPos is built from.
MaxPosToks == 4
\* Number of bytes that follow the opener in an input text of SpecBrace.
MaxBody == 5
\* Number of expressions added to a hand-built map of SpecMap.
MaxAdds == 2
\* Largest column queried on a hand-built map of SpecMap.
MaxMapColumn == 15
\* Number of pieces a parser message of SpecParse is built from.
MaxMsgPieces == 4
\* Number of notifications the client sends in SpecServer and SpecSession.
MaxChanges == 2
\* Number of add_* calls made on the collector of SpecCollector.
MaxCalls == 2
\* Number of bytes that follow the opener in an input text of SpecScan.
MaxScanBody == 4

\* ------------------------------------------------------------------ bytes

NONE == -1

\* The number of values of a u32.  TLC's integers are 32 bits wide and cannot
\* hold 2^32, so the model's u32 is 20 bits wide; it wraps the same way and
\* every line, column and length of the model is far below it.
U32 == 2^20

At(bytes, i) == bytes[i + 1]

\* &text[a..b]
Slice(bytes, a, b) == SubSeq(bytes, a + 1, b)

\* A byte at which a character starts (str::char_indices yields its index).
IsCharStart(b) == b # "e2"

RECURSIVE Concat(_)
Concat(toks) == IF toks = <<>> THEN <<>> ELSE Head(toks) \o Concat(Tail(toks))

RECURSIVE SeqsUpTo(_, _)
SeqsUpTo(S, n) ==
    IF n = 0 THEN {<<>>}
    ELSE LET shorter == SeqsUpTo(S, n - 1)
         IN  shorter \cup {Append(s, x) : s \in shorter, x \in S}

\* ------------------------------------------------- find_matching_brace

\* String skipping that takes a backslash for an ordinary byte.
RECURSIVE SkipString_NoEscape(_, _, _)
SkipString_NoEscape(bytes, quote, i) ==
    IF i >= Len(bytes) THEN i
    ELSE IF At(bytes, i) = quote THEN i
    ELSE SkipString_NoEscape(bytes, quote, i + 1)

\* The inner `while i < len` loop that skips a quoted string; i is the
\* cursor after the opening quote, the value is the cursor when the loop
\* is left (at the closing quote, or at or past the end of the text).
RECURSIVE SkipString(_, _, _)
SkipString(bytes, quote, i) ==
    IF i >= Len(bytes) THEN i
    ELSE IF At(bytes, i) = "\\" THEN SkipString(bytes, quote, i + 2)
    ELSE IF At(bytes, i) = quote THEN i
    ELSE SkipString(bytes, quote, i + 1)

\* Brace matching that returns at the first closing brace, whatever the depth.
RECURSIVE BraceLoop_FirstClose(_, _, _)
BraceLoop_FirstClose(bytes, i, depth) ==
    IF i >= Len(bytes) THEN NONE
    ELSE LET ch == At(bytes, i)
         IN  CASE ch = "{" -> BraceLoop_FirstClose(bytes, i + 1, depth + 1)
               [] ch = "}" -> i + 1
               [] ch = "\"" ->
                    BraceLoop_FirstClose(bytes, SkipString(bytes, "\"", i + 1) + 1, depth)
               [] ch = "'" ->
                    BraceLoop_FirstClose(bytes, SkipString(bytes, "'", i + 1) + 1, depth)
               [] OTHER -> BraceLoop_FirstClose(bytes, i + 1, depth)

\* The outer `while i < len` loop.
RECURSIVE BraceLoop(_, _, _)
BraceLoop(bytes, i, depth) ==
    IF i >= Len(bytes) THEN NONE
    ELSE LET ch == At(bytes, i)
         IN  CASE ch = "{" -> BraceLoop(bytes, i + 1, depth + 1)
               [] ch = "}" -> IF depth - 1 = 0 THEN i + 1
                              ELSE BraceLoop(bytes, i + 1, depth - 1)
               [] ch = "\"" -> BraceLoop(bytes, SkipString(bytes, "\"", i + 1) + 1, depth)
               [] ch = "'" -> BraceLoop(bytes, SkipString(bytes, "'", i + 1) + 1, depth)
               [] OTHER -> BraceLoop(bytes, i + 1, depth)

\* Depth initialised to 1 although the loop counts the opening brace too.
find_matching_brace_DepthOne(bytes, open_pos) ==
    IF open_pos >= Len(bytes) \/ At(bytes, open_pos) # "{" THEN NONE
    ELSE BraceLoop(bytes, open_pos, 1)

find_matching_brace(bytes, open_pos) ==
    IF open_pos >= Len(bytes) \/ At(bytes, open_pos) # "{" THEN NONE
    ELSE BraceLoop(bytes, open_pos, 0)

\* ---------------------------------------------------- scan_expressions

ExpressionMatch(bytes, s, e, k) ==
    [start |-> s, end |-> e, text |-> Slice(bytes, s, e), kind |-> k]

\* Opener tests that know the singly-delimited opener only.
OpenerAt_SingleOnly(bytes, i) ==
    IF i + 1 < Len(bytes) /\ At(bytes, i) = "$" /\ At(bytes, i + 1) = "{"
    THEN "Terraform"
    ELSE "None"

\* The opener tests of one iteration at cursor i: the doubly-delimited
\* opener first, then the singly-delimited one unless a `$` precedes it.
OpenerAt(bytes, i) ==
    LET len == Len(bytes) IN
    IF i + 2 < len /\ At(bytes, i) = "$" /\ At(bytes, i + 1) = "$" /\ At(bytes, i + 2) = "{"
    THEN "Workflows"
    ELSE IF i + 1 < len /\ At(bytes, i) = "$" /\ At(bytes, i + 1) = "{"
         THEN IF i > 0 /\ At(bytes, i - 1) = "$" THEN "None" ELSE "Terraform"
    ELSE "None"

\* Offset of the opening brace from the start of an opener.
BraceOffset(kind) == IF kind = "Workflows" THEN 2 ELSE 1

\* The cursor after an opener at i whose brace matching returned end:
\* `i = end; continue` on a match, `i += 1` otherwise.
Resume(i, end) == IF end # NONE THEN end ELSE i + 1

\* A scan that gives up at the first opener whose brace is not closed.
RECURSIVE ScanLoop_StopAtUnterminated(_, _, _)
ScanLoop_StopAtUnterminated(bytes, i, matches) ==
    IF i >= Len(bytes) THEN matches
    ELSE LET kind == OpenerAt(bytes, i) IN
         IF kind = "None" THEN ScanLoop_StopAtUnterminated(bytes, i + 1, matches)
         ELSE LET end == find_matching_brace(bytes, i + BraceOffset(kind))
              IN  IF end = NONE THEN matches
                  ELSE ScanLoop_StopAtUnterminated(
                           bytes, end, Append(matches, ExpressionMatch(bytes, i, end, kind)))

\* The `while i < len` loop of scan_expressions.
RECURSIVE ScanLoop(_, _, _)
ScanLoop(bytes, i, matches) ==
    IF i >= Len(bytes) THEN matches
    ELSE LET kind == OpenerAt(bytes, i) IN
         IF kind = "None" THEN ScanLoop(bytes, i + 1, matches)
         ELSE LET end == find_matching_brace(bytes, i + BraceOffset(kind))
              IN  ScanLoop(bytes, Resume(i, end),
                           IF end # NONE
                           THEN Append(matches, ExpressionMatch(bytes, i, end, kind))
                           ELSE matches)

scan_expressions(bytes) == ScanLoop(bytes, 0, <<>>)

\* --------------------------------------------------- offset_to_line_col

\* A line and column count that does not reset the column at a line break.
RECURSIVE LineColLoop_NoReset(_, _, _, _, _)
LineColLoop_NoReset(bytes, offset, i, line, col) ==
    IF i >= Len(bytes) THEN <<line, col>>
    ELSE IF ~IsCharStart(At(bytes, i)) THEN LineColLoop_NoReset(bytes, offset, i + 1, line, col)
    ELSE IF i >= offset THEN <<line, col>>
    ELSE IF At(bytes, i) = "\n"
         THEN LineColLoop_NoReset(bytes, offset, i + 1, (line + 1) % U32, (col + 1) % U32)
    ELSE LineColLoop_NoReset(bytes, offset, i + 1, line, (col + 1) % U32)

\* The loop over text.char_indices(): i is the byte index of the next
\* character, the value is <<line, col>>.
RECURSIVE LineColLoop(_, _, _, _, _)
LineColLoop(bytes, offset, i, line, col) ==
    IF i >= Len(bytes) THEN <<line, col>>
    ELSE IF ~IsCharStart(At(bytes, i)) THEN LineColLoop(bytes, offset, i + 1, line, col)
    ELSE IF i >= offset THEN <<line, col>>
    ELSE IF At(bytes, i) = "\n" THEN LineColLoop(bytes, offset, i + 1, (line + 1) % U32, 0)
    ELSE LineColLoop(bytes, offset, i + 1, line, (col + 1) % U32)

offset_to_line_col(bytes, offset) == LineColLoop(bytes, offset, 0, 0, 0)

\* ------------------------------------------------------------ Expression

Digit(d) == CASE d = 0 -> "0" [] d = 1 -> "1" [] d = 2 -> "2" [] d = 3 -> "3"
              [] d = 4 -> "4" [] d = 5 -> "5" [] d = 6 -> "6" [] d = 7 -> "7"
              [] d = 8 -> "8" [] d = 9 -> "9"

RECURSIVE Decimal(_)
Decimal(n) == IF n < 10 THEN <<Digit(n)>> ELSE Append(Decimal(n \div 10), Digit(n % 10))

\* {:03}: decimal, zero-padded to a width of at least three.
Format03(n) ==
    LET d == Decimal(n)
    IN  IF Len(d) >= 3 THEN d
        ELSE IF Len(d) = 2 THEN <<"0">> \o d
        ELSE <<"0", "0">> \o d

\* Every expression given the placeholder of ordinal 0.
Placeholder_Zero(counter) == <<"_", "_", "E", "X", "P", "R", "_", "0", "0", "0", "_", "_">>

\* format!("__EXPR_{:03}__", counter)
Placeholder(counter) ==
    <<"_", "_", "E", "X", "P", "R", "_">> \o Format03(counter) \o <<"_", "_">>

original_len(expr) == expr.end - expr.start

placeholder_len(expr) == Len(expr.placeholder)

len_delta(expr) == original_len(expr) - placeholder_len(expr)

\* --------------------------------------------------------- ExpressionMap

\* Vec::sort_by_key(|e| e.start) is a stable sort: insertion after every
\* element whose key is not greater.
RECURSIVE InsertByStart(_, _)
InsertByStart(sorted, e) ==
    IF sorted = <<>> THEN <<e>>
    ELSE IF Head(sorted).start <= e.start
         THEN <<Head(sorted)>> \o InsertByStart(Tail(sorted), e)
         ELSE <<e>> \o sorted

RECURSIVE SortByStart(_)
SortByStart(exprs) ==
    IF exprs = <<>> THEN <<>>
    ELSE InsertByStart(SortByStart(SubSeq(exprs, 1, Len(exprs) - 1)), exprs[Len(exprs)])

\* A delta whose original line is the line on which the expression ends.
PositionDelta_EndLine(expr, preprocessed_column) ==
    [preprocessed_line |-> expr.start_line,
     preprocessed_column |-> preprocessed_column,
     preprocessed_end_column |-> (preprocessed_column + placeholder_len(expr)) % U32,
     original_line |-> expr.end_line,
     original_column |-> expr.start_column,
     original_end_line |-> expr.end_line,
     original_end_column |-> expr.end_column,
     is_multiline |-> expr.start_line # expr.end_line]

\* The record pushed by build_position_deltas.  The u32 addition of the end
\* column is modelled as wrapping; it cannot overflow unless the start
\* column has wrapped, which needs more than twelve multi-byte characters
\* in an earlier expression of the line.
PositionDelta(expr, preprocessed_column) ==
    [preprocessed_line |-> expr.start_line,
     preprocessed_column |-> preprocessed_column,
     preprocessed_end_column |-> (preprocessed_column + placeholder_len(expr)) % U32,
     original_line |-> expr.start_line,
     original_column |-> expr.start_column,
     original_end_line |-> expr.end_line,
     original_end_column |-> expr.end_column,
     is_multiline |-> expr.start_line # expr.end_line]

\* The loop of build_position_deltas over the expressions from index k on.
\* `as u32` of a negative isize wraps.
RECURSIVE DeltaLoop(_, _, _, _, _)
DeltaLoop(exprs, k, current_line, cumulative_column_offset, deltas) ==
    IF k > Len(exprs) THEN deltas
    ELSE LET expr == exprs[k]
             cumulative == IF expr.start_line # current_line THEN 0
                           ELSE cumulative_column_offset
             preprocessed_column == (expr.start_column - cumulative) % U32
         IN  DeltaLoop(exprs, k + 1, expr.start_line, cumulative + len_delta(expr),
                       Append(deltas, PositionDelta(expr, preprocessed_column)))

build_position_deltas(exprs) == DeltaLoop(exprs, 1, 0, 0, <<>>)

\* The value of a query that panics.
PANIC == <<NONE, NONE>>

\* a - b on u32: with overflow checks (debug build) an underflow panics,
\* without them (release build) it wraps.
SubU32(a, b, overflow_checks) ==
    IF a >= b THEN a - b
    ELSE IF overflow_checks THEN NONE
    ELSE (a - b) % U32

\* The loop of adjust_position over the deltas from index k on.
RECURSIVE AdjustLoop(_, _, _, _, _, _)
AdjustLoop(deltas, k, line, column, adjusted_column, overflow_checks) ==
    IF k > Len(deltas)
    THEN <<line, (IF adjusted_column < 0 THEN 0 ELSE adjusted_column) % U32>>
    ELSE LET delta == deltas[k] IN
         IF delta.preprocessed_line # line
         THEN AdjustLoop(deltas, k + 1, line, column, adjusted_column, overflow_checks)
         ELSE IF column >= delta.preprocessed_column
                 /\ column < delta.preprocessed_end_column
         THEN <<delta.original_line, delta.original_column>>
         ELSE IF column >= delta.preprocessed_end_column
         THEN LET ph_len == SubU32(delta.preprocessed_end_column,
                                   delta.preprocessed_column, overflow_checks)
                  orig_len == SubU32(delta.original_end_column,
                                     delta.original_column, overflow_checks)
              IN  IF ph_len = NONE \/ orig_len = NONE THEN PANIC
                  ELSE AdjustLoop(deltas, k + 1, line, column,
                                  adjusted_column + orig_len - ph_len, overflow_checks)
         ELSE AdjustLoop(deltas, k + 1, line, column, adjusted_column, overflow_checks)

adjust_position(deltas, line, column, overflow_checks) ==
    AdjustLoop(deltas, 1, line, column, column, overflow_checks)

\* The loop of is_within_expression over the deltas from index k on.
RECURSIVE WithinLoop(_, _, _, _)
WithinLoop(deltas, k, line, column) ==
    IF k > Len(deltas) THEN FALSE
    ELSE LET delta == deltas[k] IN
         IF /\ delta.preprocessed_line = line
            /\ column >= delta.preprocessed_column
            /\ column < delta.preprocessed_end_column
         THEN TRUE
         ELSE WithinLoop(deltas, k + 1, line, column)

is_within_expression(deltas, line, column) == WithinLoop(deltas, 1, line, column)

\* self.expressions.iter().find(|e| e.placeholder == placeholder): the first
\* expression carrying the placeholder, NONE for None.
RECURSIVE FindLoop(_, _, _)
FindLoop(exprs, k, placeholder) ==
    IF k > Len(exprs) THEN NONE
    ELSE IF exprs[k].placeholder = placeholder THEN exprs[k]
    ELSE FindLoop(exprs, k + 1, placeholder)

find_by_placeholder(exprs, placeholder) == FindLoop(exprs, 1, placeholder)

\* ----------------------------------------------- preprocess_expressions

\* The match list taken front to back (no .rev()).
Reverse_Forward(s) == s

Reverse(s) == [k \in 1..Len(s) |-> s[Len(s) + 1 - k]]

\* String::replace_range(start..end, with)
replace_range(bytes, start, end, with) ==
    SubSeq(bytes, 1, start) \o with \o SubSeq(bytes, end + 1, Len(bytes))

Expression(bytes, mat, placeholder) ==
    LET s == offset_to_line_col(bytes, mat.start)
        e == offset_to_line_col(bytes, mat.end)
    IN  [original |-> mat.text, placeholder |-> placeholder,
         start |-> mat.start, end |-> mat.end,
         start_line |-> s[1], start_column |-> s[2],
         end_line |-> e[1], end_column |-> e[2],
         kind |-> mat.kind]

\* for (counter, mat) in matches.iter().rev().enumerate(): rev is the
\* reversed match list, k the index of the next match in it (counter + 1).
RECURSIVE SubstLoop(_, _, _, _, _)
SubstLoop(bytes, rev, k, exprs, res) ==
    IF k > Len(rev) THEN [result |-> res, expressions |-> exprs]
    ELSE LET mat == rev[k]
             placeholder == Placeholder(k - 1)
         IN  SubstLoop(bytes, rev, k + 1,
                       Append(exprs, Expression(bytes, mat, placeholder)),
                       replace_range(res, mat.start, mat.end, placeholder))

\* finalize without the sort: the expressions stay in the order of add.
finalize_NoSort(exprs) ==
    [expressions |-> exprs, position_deltas |-> build_position_deltas(exprs)]

\* ExpressionMap::finalize
finalize(exprs) ==
    LET sorted == SortByStart(exprs)
    IN  [expressions |-> sorted, position_deltas |-> build_position_deltas(sorted)]

preprocess_expressions(bytes) ==
    LET matches == scan_expressions(bytes) IN
    IF matches = <<>>
    THEN [result |-> bytes, expressions |-> <<>>, position_deltas |-> <<>>]
    ELSE LET sub == SubstLoop(bytes, Reverse(matches), 1, <<>>, bytes)
             map == finalize(sub.expressions)
         IN  [result |-> sub.result, expressions |-> map.expressions,
              position_deltas |-> map.position_deltas]

\* ------------------------------------------------------------ input texts

\* The pieces a text is built from: the single bytes the scanner
\* distinguishes, the two-byte character, and the two openers.  (The
\* backslash matters inside quoted strings only; BraceTexts has it.)
Tokens ==
    {<<"$">>, <<"{">>, <<"}">>, <<"\"">>, <<"\n">>, <<"a">>,
     <<"e1", "e2">>, <<"$", "{">>, <<"$", "$", "{">>}

Texts == {Concat(toks) : toks \in SeqsUpTo(Tokens, MaxToks)}

\* Texts for the position queries: openers, closers, line breaks, one-byte
\* and two-byte characters and a whole expression.
PosTokens ==
    {<<"$", "{">>, <<"}">>, <<"\n">>, <<"a">>, <<"e1", "e2">>, <<"$", "{", "}">>}

PosTexts == {Concat(toks) : toks \in SeqsUpTo(PosTokens, MaxPosToks)}

\* Texts for brace matching: one opener followed by a body.
BodyBytes == {"{", "}", "\"", "'", "\\", "a", "\n"}

BraceTexts == {<<"$", "{">> \o body : body \in SeqsUpTo(BodyBytes, MaxBody)}

\* ------------------------------------------------------------ the machine

NoQuery == <<>>

\* DiagnosticCollector::new() is the call a collector starts with; n counts
\* the add_* calls made on the collector.
NoCall ==
    [op |-> "new", message |-> <<>>, line |-> 0, column |-> 0,
     end_line |-> 0, end_column |-> 0, code |-> "", n |-> 0]

InitOn(T) ==
    /\ text \in T
    /\ pc = "start"
    /\ result = <<>>
    /\ expressions = <<>>
    /\ position_deltas = <<>>
    /\ query = NoQuery
    /\ adjusted = NoQuery
    /\ within = NoQuery
    /\ found = NoQuery
    /\ parser = NoQuery
    /\ diagnostics = <<>>
    /\ parse_result = NoQuery
    /\ documents = <<>>
    /\ handlers = <<>>
    /\ published = <<>>
    /\ call = NoCall
    /\ scan = NoQuery

Init == InitOn(Texts)

InitPos == InitOn(PosTexts)

InitBrace == InitOn(BraceTexts)

\* preprocess_expressions(text): the rewritten text and the finalized map.
Preprocess ==
    /\ pc = "start"
    /\ LET out == preprocess_expressions(text)
       IN  /\ result' = out.result
           /\ expressions' = out.expressions
           /\ position_deltas' = out.position_deltas
    /\ pc' = "done"
    /\ UNCHANGED <<text, callVars, parseVars, serverVars, stepVars>>

NumNewlines(bytes) == Cardinality({k \in 1..Len(bytes) : bytes[k] = "\n"})

\* map.adjust_position(line, column) on a map, in either build.
AdjustPosition(line, column) ==
    /\ pc # "start"
    /\ \E overflow_checks \in BOOLEAN :
         adjusted' = adjust_position(position_deltas, line, column, overflow_checks)
    /\ query' = <<line, column>>
    /\ within' = NoQuery
    /\ found' = NoQuery
    /\ UNCHANGED <<text, pc, result, mapVars, parseVars, serverVars, stepVars>>

\* map.is_within_expression(line, column) on a map.
IsWithinExpression(line, column) ==
    /\ pc # "start"
    /\ within' = [line |-> line, column |-> column,
                  value |-> is_within_expression(position_deltas, line, column)]
    /\ query' = NoQuery
    /\ adjusted' = NoQuery
    /\ found' = NoQuery
    /\ UNCHANGED <<text, pc, result, mapVars, parseVars, serverVars, stepVars>>

\* map.find_by_placeholder(placeholder) on a map.
FindByPlaceholder(placeholder) ==
    /\ pc # "start"
    /\ found' = [placeholder |-> placeholder,
                 value |-> find_by_placeholder(expressions, placeholder)]
    /\ query' = NoQuery
    /\ adjusted' = NoQuery
    /\ within' = NoQuery
    /\ UNCHANGED <<text, pc, result, mapVars, parseVars, serverVars, stepVars>>

QueryLines == 0..NumNewlines(text)

QueryColumns == 0..(Len(result) + 1)

\* The names looked up: every placeholder a text of the bound can carry, one
\* more, and a name that is no placeholder.
QueryNames == {Placeholder(counter) : counter \in 0..(MaxPosToks \div 2)} \cup {<<"a">>}

Next ==
    \/ Preprocess
    \/ \E line \in QueryLines, column \in QueryColumns : AdjustPosition(line, column)
    \/ \E line \in QueryLines, column \in QueryColumns : IsWithinExpression(line, column)

FindNext ==
    \/ Preprocess
    \/ \E placeholder \in QueryNames : FindByPlaceholder(placeholder)

ScanNext == Preprocess

\* The texts whose expressions a hand-built map is filled with: an
\* expression at column 0, one after a character, one on the second line,
\* two on one line, one holding a multi-byte character and a multi-line
\* one that ends at a smaller column than it starts.
MapTexts ==
    {<<"$", "{", "}">>,
     <<"a", "$", "{", "}">>,
     <<"\n", "$", "{", "}">>,
     <<"$", "{", "}", "$", "{", "}">>,
     <<"$", "{", "e1", "e2", "}">>,
     <<"a", "a", "$", "{", "\n", "}">>}

ExprPool ==
    UNION {{preprocess_expressions(t).expressions[k] :
              k \in 1..Len(preprocess_expressions(t).expressions)} : t \in MapTexts}

\* ExpressionMap::new(): no expression, no delta.
InitMap ==
    /\ text = <<>>
    /\ pc = "new"
    /\ result = <<>>
    /\ expressions = <<>>
    /\ position_deltas = <<>>
    /\ query = NoQuery
    /\ adjusted = NoQuery
    /\ within = NoQuery
    /\ found = NoQuery
    /\ parser = NoQuery
    /\ diagnostics = <<>>
    /\ parse_result = NoQuery
    /\ documents = <<>>
    /\ handlers = <<>>
    /\ published = <<>>
    /\ call = NoCall
    /\ scan = NoQuery

\* map.add(expr) on a hand-built map; the delta table is left as it is.
\* The calls recorded are those made since the map last changed.
Add(expr) ==
    /\ pc \in {"new", "finalized", "modified"}
    /\ Len(expressions) < MaxAdds
    /\ expressions' = Append(expressions, expr)
    /\ pc' = IF pc = "new" THEN "new" ELSE "modified"
    /\ query' = NoQuery
    /\ adjusted' = NoQuery
    /\ within' = NoQuery
    /\ found' = NoQuery
    /\ UNCHANGED <<text, result, position_deltas, parseVars, serverVars, stepVars>>

\* A finalize that pushes the deltas after those of the last call.
Finalize_Append ==
    /\ pc \in {"new", "finalized", "modified"}
    /\ LET out == finalize(expressions)
       IN  /\ expressions' = out.expressions
           /\ position_deltas' = position_deltas \o out.position_deltas
    /\ pc' = "finalized"
    /\ query' = NoQuery
    /\ adjusted' = NoQuery
    /\ within' = NoQuery
    /\ found' = NoQuery
    /\ UNCHANGED <<text, result, parseVars, serverVars, stepVars>>

\* map.finalize() on a hand-built map.
Finalize ==
    /\ pc \in {"new", "finalized", "modified"}
    /\ LET out == finalize(expressions)
       IN  /\ expressions' = out.expressions
           /\ position_deltas' = out.position_deltas
    /\ pc' = "finalized"
    /\ query' = NoQuery
    /\ adjusted' = NoQuery
    /\ within' = NoQuery
    /\ found' = NoQuery
    /\ UNCHANGED <<text, result, parseVars, serverVars, stepVars>>

MapLines == 0..1

MapColumns == 0..MaxMapColumn

MapNext ==
    \/ \E expr \in ExprPool : Add(expr)
    \/ Finalize
    \/ \E line \in MapLines, column \in MapColumns : AdjustPosition(line, column)
    \/ \E line \in MapLines, column \in MapColumns : IsWithinExpression(line, column)

Spec == Init /\ [][ScanNext]_vars

SpecPos == InitPos /\ [][Next]_vars

SpecBrace == InitBrace /\ [][ScanNext]_vars

SpecMap == InitMap /\ [][MapNext]_vars

SpecFind == InitPos /\ [][FindNext]_vars

\* ------------------------------------------------- reference definitions
\* What the claims speak of, defined from the texts alone and not by the
\* loops above.

Max(S) == CHOOSE x \in S : \A y \in S : y <= x

Min(S) == CHOOSE x \in S : \A y \in S : x <= y

RECURSIVE Sum(_, _)
Sum(f, S) == IF S = {} THEN 0
             ELSE LET x == CHOOSE y \in S : TRUE IN f[x] + Sum(f, S \ {x})

\* Line of offset off: the line breaks before it.
RefLine(bytes, off) == Cardinality({k \in 0..(off - 1) : At(bytes, k) = "\n"})

\* Offset at which the line of offset off starts.
RefLineStart(bytes, off) ==
    Max({0} \cup {k + 1 : k \in {j \in 0..(off - 1) : At(bytes, j) = "\n"}})

\* Column of offset off: the characters between the line start and it.
RefColumn(bytes, off) ==
    Cardinality({k \in RefLineStart(bytes, off)..(off - 1) : IsCharStart(At(bytes, k))})

RefLineCol(bytes, off) == <<RefLine(bytes, off), RefColumn(bytes, off)>>

\* bytes has the byte sequence pat at offset i.
HasAt(bytes, i, pat) ==
    /\ i >= 0
    /\ i + Len(pat) <= Len(bytes)
    /\ \A k \in 1..Len(pat) : bytes[i + k] = pat[k]

Contains(bytes, pat) == \E i \in 0..Len(bytes) : HasAt(bytes, i, pat)

\* Brace matching as a state machine over the bytes from the opening brace:
\* the mode (outside a string, in a double-quoted or in a single-quoted
\* string), the pending escape and the nesting depth.
RefStep(st, b) ==
    IF st.mode = "normal"
    THEN CASE b = "{" -> [st EXCEPT !.depth = @ + 1]
           [] b = "}" -> [st EXCEPT !.depth = @ - 1]
           [] b = "\"" -> [st EXCEPT !.mode = "double"]
           [] b = "'" -> [st EXCEPT !.mode = "single"]
           [] OTHER -> st
    ELSE IF st.esc THEN [st EXCEPT !.esc = FALSE]
    ELSE IF b = "\\" THEN [st EXCEPT !.esc = TRUE]
    ELSE IF (st.mode = "double" /\ b = "\"") \/ (st.mode = "single" /\ b = "'")
         THEN [st EXCEPT !.mode = "normal"]
    ELSE st

RefStart == [mode |-> "normal", esc |-> FALSE, depth |-> 0]

\* The state after the bytes open..p (inclusive).
RECURSIVE RefState(_, _, _)
RefState(bytes, open, p) ==
    IF p < open THEN RefStart ELSE RefStep(RefState(bytes, open, p - 1), At(bytes, p))

\* The offset after the first closing brace at which the depth returns to
\* 0, or NONE when there is none.
RefClose(bytes, open) ==
    IF open >= Len(bytes) \/ At(bytes, open) # "{" THEN NONE
    ELSE LET closes == {p \in open..(Len(bytes) - 1) :
                          /\ At(bytes, p) = "}"
                          /\ RefState(bytes, open, p - 1).mode = "normal"
                          /\ ~RefState(bytes, open, p - 1).esc
                          /\ RefState(bytes, open, p).depth = 0}
         IN  IF closes = {} THEN NONE ELSE Min(closes) + 1

\* Byte p belongs to the content of a quoted string that was opened at or
\* after the brace at open: it is neither the opening nor the closing quote.
InString(bytes, open, p) ==
    /\ p > open
    /\ RefState(bytes, open, p - 1).mode # "normal"
    /\ RefState(bytes, open, p).mode # "normal"

\* The text with every byte of string content replaced by a plain byte.
Neutral(bytes, open) ==
    [k \in 1..Len(bytes) |-> IF InString(bytes, open, k - 1) THEN "a" ELSE bytes[k]]

\* An opener of either kind starts at offset i.
IsOpener(bytes, i) == HasAt(bytes, i, <<"$", "{">>) \/ HasAt(bytes, i, <<"$", "$", "{">>)

\* Offset of the opening brace of the opener at i.
BraceOf(bytes, i) == IF HasAt(bytes, i, <<"$", "$", "{">>) THEN i + 2 ELSE i + 1

\* The opener at i has no matching closing brace.
Unterminated(bytes, i) == IsOpener(bytes, i) /\ RefClose(bytes, BraceOf(bytes, i)) = NONE

\* Offset i lies strictly inside the span of a recorded expression.
Covered(exprs, i) == \E k \in 1..Len(exprs) : exprs[k].start < i /\ i < exprs[k].end

\* Start, end and kind of each element, the offsets moved by shift.
Spans(ms, shift) ==
    [k \in 1..Len(ms) |-> <<ms[k].start + shift, ms[k].end + shift, ms[k].kind>>]

\* Offset in the rewritten text of the placeholder of expressions[k]: its
\* start, moved by what the spans before it gained or lost.
PlaceholderStart(exprs, k) ==
    exprs[k].start
      - Sum([m \in 1..Len(exprs) |-> original_len(exprs[m]) - Len(exprs[m].placeholder)],
            {m \in 1..Len(exprs) : exprs[m].start < exprs[k].start})

PlaceholderEnd(exprs, k) == PlaceholderStart(exprs, k) + Len(exprs[k].placeholder)

\* Offset j of the rewritten text lies in no placeholder.
OutsidePlaceholders(exprs, j) ==
    \A k \in 1..Len(exprs) : ~(PlaceholderStart(exprs, k) <= j /\ j < PlaceholderEnd(exprs, k))

\* The offset in the original text of the byte at offset j of the rewritten
\* text, for j in no placeholder.
OriginalOffset(exprs, j) ==
    j + Sum([m \in 1..Len(exprs) |-> original_len(exprs[m]) - Len(exprs[m].placeholder)],
            {m \in 1..Len(exprs) : PlaceholderEnd(exprs, m) <= j})

\* The original text with each span replaced by its placeholder, built
\* front to back from the span list (sorted by start, not overlapping).
RECURSIVE Rewritten(_, _, _, _)
Rewritten(bytes, exprs, k, from) ==
    IF k > Len(exprs) THEN Slice(bytes, from, Len(bytes))
    ELSE Slice(bytes, from, exprs[k].start) \o exprs[k].placeholder
           \o Rewritten(bytes, exprs, k + 1, exprs[k].end)

\* The rewritten text with each placeholder replaced by its original.
RECURSIVE Restored(_, _, _, _)
Restored(res, exprs, k, from) ==
    IF k > Len(exprs) THEN Slice(res, from, Len(res))
    ELSE Slice(res, from, PlaceholderStart(exprs, k)) \o exprs[k].original
           \o Restored(res, exprs, k + 1, PlaceholderEnd(exprs, k))

\* ------------------------------------------------------------------ claims

\* C1: for every position (l, c) of a character of the rewritten text that
\* lies in no placeholder, adjust_position(l, c) is the line and column of
\* that character in the original text, for every text.
C1_AdjustedIsOriginalPosition ==
    query # NoQuery =>
      \A j \in 0..(Len(result) - 1) :
        ( /\ IsCharStart(At(result, j))
          /\ OutsidePlaceholders(expressions, j)
          /\ RefLineCol(result, j) = query )
        => adjusted = RefLineCol(text, OriginalOffset(expressions, j))

\* C2: the k-th expression by start offset (k = 0, 1, 2, ...) carries the
\* placeholder with ordinal k.
C2_OrdinalsFollowDocumentOrder ==
    pc = "done" =>
      \A k \in 1..Len(expressions) : expressions[k].placeholder = Placeholder(k - 1)

\* C3: every expression has start < end, consecutive expressions do not
\* overlap (a.end <= b.start), and the expressions are ordered by strictly
\* increasing start.
C3_SpansOrderedDisjoint ==
    pc = "done" =>
      /\ \A k \in 1..Len(expressions) : expressions[k].start < expressions[k].end
      /\ \A k \in 1..(Len(expressions) - 1) :
           /\ expressions[k].end <= expressions[k + 1].start
           /\ expressions[k].start < expressions[k + 1].start

\* C3 witness: a recorded expression holds a terminated opener strictly
\* inside its span, and that opener is not recorded separately.
C3_Witness ==
    /\ pc = "done"
    /\ Len(expressions) = 1
    /\ \E i \in 0..Len(text) :
         /\ HasAt(text, i, <<"$", "{">>)
         /\ find_matching_brace(text, i + 1) # NONE
         /\ expressions[1].start + 2 < i /\ i < expressions[1].end

\* C4: the rewritten text is the original with each recorded span replaced
\* by its placeholder and every other byte unchanged and in order; putting
\* the originals back reconstructs the text; with no expression recorded
\* the rewritten text is the original.
C4_RewrittenIsTextWithPlaceholders ==
    pc = "done" =>
      /\ result = Rewritten(text, expressions, 1, 0)
      /\ Restored(result, expressions, 1, 0) = text
      /\ (expressions = <<>> => result = text /\ position_deltas = <<>>)

\* C4 witness: two spans were replaced, so the later replacement was made
\* before the earlier one.
C4_Witness ==
    /\ pc = "done"
    /\ Len(expressions) = 2
    /\ result # text

\* C5: every `${` of the rewritten text lies at a position of the original
\* whose opening brace has no matching closing brace; if every opener of
\* the text is terminated the rewritten text has neither `${` nor `$${`.
C5_SurvivingOpenersAreUnterminated ==
    pc = "done" =>
      /\ \A j \in 0..(Len(result) - 1) :
           HasAt(result, j, <<"$", "{">>) =>
             /\ OutsidePlaceholders(expressions, j)
             /\ OutsidePlaceholders(expressions, j + 1)
             /\ HasAt(text, OriginalOffset(expressions, j), <<"$", "{">>)
             /\ RefClose(text, OriginalOffset(expressions, j) + 1) = NONE
      /\ (\A i \in 0..Len(text) :
            HasAt(text, i, <<"$", "{">>) => RefClose(text, i + 1) # NONE)
         => /\ ~Contains(result, <<"$", "{">>)
            /\ ~Contains(result, <<"$", "$", "{">>)

\* C5 witness: an unterminated opener survives next to a placeholder.
C5_Witness ==
    /\ pc = "done"
    /\ Len(expressions) >= 1
    /\ Contains(result, <<"$", "{">>)

\* C5 witness of the second half: every opener is terminated, one of each
\* kind is replaced.
C5_WitnessAllTerminated ==
    /\ pc = "done"
    /\ Len(expressions) = 2
    /\ expressions[1].kind # expressions[2].kind
    /\ ~Contains(result, <<"$", "{">>)

\* C6: brace matching is depth based: every recorded expression ends just
\* after the first closing brace at which the depth, counted outside quoted
\* strings, returns to 0, and an opener at the start of the text whose
\* braces are balanced is recorded from its `$` on.
C6_MatchIsDepthBased ==
    pc = "done" =>
      /\ \A k \in 1..Len(expressions) :
           expressions[k].end
             = RefClose(text, expressions[k].start + BraceOffset(expressions[k].kind))
      /\ (IsOpener(text, 0) /\ RefClose(text, BraceOf(text, 0)) # NONE)
         => /\ Len(expressions) >= 1
            /\ expressions[1].start = 0
            /\ expressions[1].end = RefClose(text, BraceOf(text, 0))

\* C6 witness: the recorded expression holds an inner closing brace that
\* leaves the depth at 2 or more (nesting depth 3).
C6_Witness ==
    /\ pc = "done"
    /\ Len(expressions) = 1
    /\ \E p \in 2..(expressions[1].end - 2) :
         /\ At(text, p) = "}"
         /\ RefState(text, 1, p).mode = "normal"
         /\ RefState(text, 1, p).depth >= 2

\* C7: the bytes between a quote and the next unescaped occurrence of the
\* same quote, a backslash escaping exactly the following byte, never change
\* the brace depth: the match is the one of the text in which every byte of
\* string content is replaced by a plain byte.
C7_StringContentIsInert ==
    pc = "done" =>
      Spans(expressions, 0) = Spans(scan_expressions(Neutral(text, 1)), 0)

\* C7 witness: the recorded expression holds a string with a backslash-quote
\* pair that does not close it.
C7_Witness ==
    /\ pc = "done"
    /\ Len(expressions) = 1
    /\ \E p \in 3..(Len(text) - 3) :
         /\ At(text, p) = "\\"
         /\ At(text, p + 1) = "\""
         /\ RefState(text, 1, p).esc
         /\ RefState(text, 1, p + 1).mode = "double"
         /\ p + 1 < expressions[1].end

\* C8: an opener whose brace matching reaches the end of the text records
\* no expression, its bytes stay verbatim in the rewritten text, and the
\* expressions recorded after its start are those of a scan that starts one
\* byte after it.
C8_UnterminatedOpenerIsSkipped ==
    pc = "done" =>
      \A i \in 0..Len(text) :
        (Unterminated(text, i) /\ ~Covered(expressions, i)) =>
          /\ \A k \in 1..Len(expressions) : expressions[k].start # i
          /\ \A p \in i..BraceOf(text, i) :
               /\ ~Covered(expressions, p)
               /\ \A k \in 1..Len(expressions) : expressions[k].start # p
          /\ LET j == i - Sum([m \in 1..Len(expressions) |-> len_delta(expressions[m])],
                              {m \in 1..Len(expressions) : expressions[m].end <= i})
             IN  HasAt(result, j, Slice(text, i, BraceOf(text, i) + 1))
          /\ Spans(SelectSeq(expressions, LAMBDA e : e.start > i), 0)
               = Spans(scan_expressions(Slice(text, i + 1, Len(text))), i + 1)

\* C8 witness: a terminated expression is recorded inside the body of an
\* unterminated opener.
C8_Witness ==
    /\ pc = "done"
    /\ \E i \in 0..Len(text) :
         /\ Unterminated(text, i)
         /\ ~Covered(expressions, i)
         /\ \E k \in 1..Len(expressions) : expressions[k].start > i

\* C9: an expression has kind Workflows exactly when it starts with `$${`,
\* kind Terraform exactly when it starts with `${` and no `$` precedes it;
\* a terminated opener of the other kind right after an expression is
\* recorded too, with its kind and offsets.
C9_KindsByDelimiter ==
    pc = "done" =>
      \A k \in 1..Len(expressions) :
        LET e == expressions[k]
            other == IF e.kind = "Terraform" THEN <<"$", "$", "{">> ELSE <<"$", "{">>
        IN  /\ e.kind \in {"Terraform", "Workflows"}
            /\ e.kind = "Workflows" <=> HasAt(text, e.start, <<"$", "$", "{">>)
            /\ e.kind = "Terraform" <=>
                 /\ HasAt(text, e.start, <<"$", "{">>)
                 /\ (e.start = 0 \/ At(text, e.start - 1) # "$")
            /\ (HasAt(text, e.end, other) /\ RefClose(text, BraceOf(text, e.end)) # NONE)
               => /\ k < Len(expressions)
                  /\ expressions[k + 1].start = e.end
                  /\ expressions[k + 1].kind # e.kind
                  /\ expressions[k + 1].end = RefClose(text, BraceOf(text, e.end))

\* C9 witness: two expressions of different kinds back to back.
C9_Witness ==
    /\ pc = "done"
    /\ Len(expressions) = 2
    /\ expressions[1].kind = "Workflows"
    /\ expressions[2].kind = "Terraform"
    /\ expressions[1].end = expressions[2].start

\* C10: every expression describes the original text: original is the
\* span's bytes, (start_line, start_column) the line and column of start
\* and (end_line, end_column) those of end.
C10_ExpressionDescribesOriginal ==
    pc = "done" =>
      \A k \in 1..Len(expressions) :
        LET e == expressions[k]
        IN  /\ e.original = Slice(text, e.start, e.end)
            /\ <<e.start_line, e.start_column>> = RefLineCol(text, e.start)
            /\ <<e.end_line, e.end_column>> = RefLineCol(text, e.end)

\* C10 witness: two expressions on one line, the second at a later column.
C10_Witness ==
    /\ pc = "done"
    /\ Len(expressions) = 2
    /\ expressions[1].start_line = expressions[2].start_line
    /\ expressions[2].start_column > expressions[1].start_column

\* Line of the rewritten text on which the placeholder of expressions[k]
\* lies, and the columns at which it starts and ends there.
PlaceholderLine(res, exprs, k) == RefLine(res, PlaceholderStart(exprs, k))

PlaceholderColumn(res, exprs, k) == RefColumn(res, PlaceholderStart(exprs, k))

PlaceholderEndColumn(res, exprs, k) == RefColumn(res, PlaceholderEnd(exprs, k))

\* Position (line, column) of the rewritten text lies in the placeholder of
\* expressions[k].
InPlaceholder(res, exprs, k, line, column) ==
    /\ line = PlaceholderLine(res, exprs, k)
    /\ PlaceholderColumn(res, exprs, k) <= column
    /\ column < PlaceholderEndColumn(res, exprs, k)

\* C11: adjust_position(l, c) with c inside the column range of a placeholder
\* on line l of the rewritten text returns the start line and start column
\* of that placeholder's original expression.
C11_InsidePlaceholderIsExpressionStart ==
    adjusted # NoQuery =>
      \A k \in 1..Len(expressions) :
        InPlaceholder(result, expressions, k, query[1], query[2])
        => adjusted = <<expressions[k].start_line, expressions[k].start_column>>

\* Number of characters of a byte sequence.
CharLen(bytes) == Cardinality({k \in 1..Len(bytes) : IsCharStart(bytes[k])})

\* The placeholders of line `line` of the rewritten text that end at or
\* before column `column`.
PlaceholdersBefore(res, exprs, line, column) ==
    {k \in 1..Len(exprs) : /\ PlaceholderLine(res, exprs, k) = line
                           /\ PlaceholderEndColumn(res, exprs, k) <= column}

\* C12: adjust_position(l, c) with c inside no placeholder returns
\* (l, c + S), S being the sum over the placeholders of line l that end at
\* or before c of the length of the original expression minus the length of
\* the placeholder.
C12_OutsidePlaceholderIsShifted ==
    adjusted # NoQuery =>
      ( (\A k \in 1..Len(expressions) :
            ~InPlaceholder(result, expressions, k, query[1], query[2]))
        => adjusted =
             <<query[1],
               query[2]
                 + Sum([k \in 1..Len(expressions) |->
                          CharLen(expressions[k].original)
                            - CharLen(expressions[k].placeholder)],
                       PlaceholdersBefore(result, expressions, query[1], query[2]))>> )

\* The delta table has an entry for line `line`.
HasDeltaOn(deltas, line) == \E k \in 1..Len(deltas) : deltas[k].preprocessed_line = line

C14_WithinIffInsidePlaceholder ==
    within # NoQuery =>
      ( within.value
        <=> \E k \in 1..Len(expressions) :
              InPlaceholder(result, expressions, k, within.line, within.column) )

\* The deltas of line `line` whose placeholder ends at or before `column`:
\* those for which adjust_position subtracts.
DeltasBefore(deltas, line, column) ==
    {k \in 1..Len(deltas) : /\ deltas[k].preprocessed_line = line
                            /\ deltas[k].preprocessed_end_column <= column}

\* The column shifted in signed arithmetic, without bound.
ShiftedColumn(deltas, line, column) ==
    column + Sum([k \in 1..Len(deltas) |->
                    (deltas[k].original_end_column - deltas[k].original_column)
                      - (deltas[k].preprocessed_end_column - deltas[k].preprocessed_column)],
                 DeltasBefore(deltas, line, column))

\* C15: for every map built by preprocess_expressions and every query, no
\* unsigned subtraction of adjust_position underflows, the call does not
\* panic, and the column returned for a position outside the placeholders
\* is max(0, shifted column).
C15_TranslationIsTotal ==
    adjusted # NoQuery =>
      /\ adjusted # PANIC
      /\ \A k \in DeltasBefore(position_deltas, query[1], query[2]) :
           /\ position_deltas[k].original_end_column >= position_deltas[k].original_column
           /\ position_deltas[k].preprocessed_end_column
                >= position_deltas[k].preprocessed_column
      /\ ~is_within_expression(position_deltas, query[1], query[2])
           => adjusted = <<query[1],
                           Max({0, ShiftedColumn(position_deltas, query[1], query[2])})>>

\* C16: placeholders are unique within one document: for every expression
\* e of the map built by preprocess_expressions, find_by_placeholder of e's
\* placeholder returns e itself, and find_by_placeholder of a name no
\* expression carries returns None.
C16_PlaceholderFindsItsExpression ==
    found # NoQuery =>
      /\ \A k \in 1..Len(expressions) :
           expressions[k].placeholder = found.placeholder => found.value = expressions[k]
      /\ (\A k \in 1..Len(expressions) : expressions[k].placeholder # found.placeholder)
           => found.value = NONE

\* C16 witness: the lookup of the placeholder of the second of two
\* expressions returns that expression.
C16_Witness ==
    /\ found # NoQuery
    /\ Len(expressions) = 2
    /\ found.placeholder = expressions[2].placeholder
    /\ found.value = expressions[2]

\* ------------------------------------------------------------- parse_yaml
\* src/parser/yaml.rs and the collector of src/diagnostics/yaml_errors.rs.
\* A message is a sequence of one-character strings.

IsDigit(c) == c \in {"0", "1", "2", "3", "4", "5", "6", "7", "8", "9"}

\* \s
IsWhitespace(c) == c \in {" ", "\t", "\n", "\r"}

\* \d+ is greedy: the end of the run of digits that starts at offset i.
RECURSIVE DigitsEnd(_, _)
DigitsEnd(message, i) ==
    IF i < Len(message) /\ IsDigit(At(message, i)) THEN DigitsEnd(message, i + 1) ELSE i

\* \s+ is greedy: the end of the run of whitespace that starts at offset i.
RECURSIVE WhitespaceEnd(_, _)
WhitespaceEnd(message, i) ==
    IF i < Len(message) /\ IsWhitespace(At(message, i))
    THEN WhitespaceEnd(message, i + 1) ELSE i

AtLine == <<"a", "t", " ", "l", "i", "n", "e", " ">>

Column == <<" ", "c", "o", "l", "u", "m", "n", " ">>

NoMatch == [matched |-> FALSE]

\* `at line (\d+) column (\d+)` matched at offset i: the two captures and
\* the end of the match.
PositionMatch(message, i) ==
    IF ~HasAt(message, i, AtLine) THEN NoMatch
    ELSE LET l0 == i + Len(AtLine)
             l1 == DigitsEnd(message, l0)
         IN  IF l1 = l0 \/ ~HasAt(message, l1, Column) THEN NoMatch
             ELSE LET c0 == l1 + Len(Column)
                      c1 == DigitsEnd(message, c0)
                  IN  IF c1 = c0 THEN NoMatch
                      ELSE [matched |-> TRUE, start |-> i,
                            line |-> Slice(message, l0, l1),
                            column |-> Slice(message, c0, c1),
                            end |-> c1]

\* POSITION_RE.captures(message): the leftmost match, searched from offset i.
RECURSIVE Captures(_, _)
Captures(message, i) ==
    IF i >= Len(message) THEN NoMatch
    ELSE IF PositionMatch(message, i).matched THEN PositionMatch(message, i)
    ELSE Captures(message, i + 1)

DigitValue(c) == CHOOSE d \in 0..9 : Digit(d) = c

\* The number a run of digits denotes.
RECURSIVE DecimalValue(_)
DecimalValue(digits) ==
    IF digits = <<>> THEN 0
    ELSE 10 * DecimalValue(SubSeq(digits, 1, Len(digits) - 1))
           + DigitValue(digits[Len(digits)])

\* m.as_str().parse().ok() for u32, then unwrap_or(1): a number that does
\* not fit a u32 fails to parse.
ParseOr1(digits) ==
    IF DecimalValue(digits) >= U32 THEN 1 ELSE DecimalValue(digits)

\* A subtraction that wraps below zero.
saturating_sub_Wrapping(a, b) == (a - b) % U32

saturating_sub(a, b) == IF a >= b THEN a - b ELSE 0

extract_error_position(message) ==
    LET caps == Captures(message, 0)
    IN  IF caps.matched
        THEN <<saturating_sub(ParseOr1(caps.line), 1),
               saturating_sub(ParseOr1(caps.column), 1)>>
        ELSE <<0, 0>>

\* `\s+at line \d+ column \d+$` matched at offset i.
SuffixMatch(message, i) ==
    LET j == WhitespaceEnd(message, i)
    IN  /\ j > i
        /\ PositionMatch(message, j).matched
        /\ PositionMatch(message, j).end = Len(message)

\* POSITION_SUFFIX_RE.replace(message, ""): the leftmost match, searched
\* from offset i, is cut off.
RECURSIVE CleanFrom(_, _)
CleanFrom(message, i) ==
    IF i >= Len(message) THEN message
    ELSE IF SuffixMatch(message, i) THEN Slice(message, 0, i)
    ELSE CleanFrom(message, i + 1)

clean_error_message(message) == CleanFrom(message, 0)

\* DiagnosticCode::from_message; the messages of the model are lower case.
from_message(message) ==
    IF \/ Contains(message, <<"i", "n", "d", "e", "n", "t">>)
       \/ Contains(message, <<"m", "a", "p", "p", "i", "n", "g", " ",
                              "v", "a", "l", "u", "e", "s">>)
    THEN "invalid-indentation"
    ELSE IF \/ Contains(message, <<"u", "n", "c", "l", "o", "s", "e", "d">>)
            \/ Contains(message, <<"u", "n", "t", "e", "r", "m", "i", "n", "a", "t", "e", "d">>)
            \/ Contains(message, <<"q", "u", "o", "t", "e">>)
    THEN "unclosed-string"
    ELSE "yaml-syntax"

\* The diagnostic pushed by add_yaml_error_with_range.
YamlError(message, start_line, start_column, end_line, end_column, code) ==
    [range |-> [start |-> <<start_line, start_column>>, end |-> <<end_line, end_column>>],
     severity |-> "ERROR",
     code |-> code,
     source |-> "yaml-tftpl-lsp",
     message |-> message]

\* A push that puts the diagnostic in front of the collected ones.
add_yaml_error_with_range_Prepend(collected, message, start_line, start_column, end_line, end_column, code) ==
    <<YamlError(message, start_line, start_column, end_line, end_column, code)>>
      \o collected

\* collector.add_yaml_error_with_range(...): the collector afterwards.
add_yaml_error_with_range(collected, message, start_line, start_column, end_line, end_column, code) ==
    Append(collected,
           YamlError(message, start_line, start_column, end_line, end_column, code))

\* collector.add_yaml_error_with_code(message, line, column, code)
add_yaml_error_with_code(collected, message, line, column, code) ==
    add_yaml_error_with_range(collected, message, line, column,
                              line, (column + 1) % U32, code)

\* collector.add_yaml_error(message, line, column): the collector afterwards.
add_yaml_error(collected, message, line, column) ==
    add_yaml_error_with_code(collected, message, line, column, from_message(message))

\* The diagnostic pushed by add_workflow_warning_with_code.
WorkflowWarning(message, line, column, code) ==
    [range |-> [start |-> <<line, column>>, end |-> <<line, (column + 1) % U32>>],
     severity |-> "WARNING",
     code |-> code,
     source |-> "yaml-tftpl-lsp",
     message |-> message]

\* collector.add_workflow_warning_with_code(message, line, column, code)
add_workflow_warning_with_code(collected, message, line, column, code) ==
    Append(collected, WorkflowWarning(message, line, column, code))

\* collector.add_workflow_warning(message, line, column)
add_workflow_warning(collected, message, line, column) ==
    add_workflow_warning_with_code(collected, message, line, column,
                                   "workflow-structure")

\* A hint pushed with the severity of an error.
add_hint_AsError(collected, message, line, column) ==
    Append(collected,
           [range |-> [start |-> <<line, column>>, end |-> <<line, (column + 1) % U32>>],
            severity |-> "ERROR",
            code |-> "unknown-keyword",
            source |-> "yaml-tftpl-lsp",
            message |-> message])

\* collector.add_hint(message, line, column)
add_hint(collected, message, line, column) ==
    Append(collected,
           [range |-> [start |-> <<line, column>>, end |-> <<line, (column + 1) % U32>>],
            severity |-> "HINT",
            code |-> "unknown-keyword",
            source |-> "yaml-tftpl-lsp",
            message |-> message])

\* collector.len()
len(collected) == Len(collected)

\* collector.is_empty()
is_empty(collected) == collected = <<>>

\* DiagnosticCode::as_str of each code.
DiagnosticCodes ==
    {"yaml-syntax", "invalid-indentation", "unclosed-string",
     "workflow-structure", "unknown-keyword"}

\* What parse_yaml leaves when it panics: no ParseResult.
Panicked == [panic |-> TRUE]

\* parse_yaml on what the parser returned: the collector afterwards and the
\* ParseResult.  When adjust_position panics, so does parse_yaml.
parse_yaml(outcome, deltas, collected, overflow_checks) ==
    IF outcome.ok
    THEN [diagnostics |-> collected,
          parse_result |-> [value |-> outcome.value, success |-> TRUE]]
    ELSE LET position == extract_error_position(outcome.message)
             adj == adjust_position(deltas, position[1], position[2], overflow_checks)
             clean_message == clean_error_message(outcome.message)
         IN  IF adj = PANIC
             THEN [diagnostics |-> collected, parse_result |-> Panicked]
             ELSE [diagnostics |-> add_yaml_error(collected, clean_message, adj[1], adj[2]),
                   parse_result |-> [value |-> NONE, success |-> FALSE]]

\* The text of the locator of line n, column m.
Locator(n, m) == AtLine \o Decimal(n) \o Column \o Decimal(m)

\* The lines and columns the parser reports (one-indexed; 0 is below any
\* position, column 15 is past a placeholder that starts a line).
LocatorPairs == {<<0, 0>>, <<1, 15>>, <<2, 1>>}

MsgPieces == {<<"e">>, <<" ">>} \cup {Locator(nm[1], nm[2]) : nm \in LocatorPairs}

Messages == {Concat(pieces) : pieces \in SeqsUpTo(MsgPieces, MaxMsgPieces)}

\* What serde_yaml::from_str can return: a value, or an error with a message.
ParserOutcomes ==
    {[ok |-> TRUE, value |-> "value"]} \cup {[ok |-> FALSE, message |-> m] : m \in Messages}

\* The texts parsed: no expression, an expression at column 0, one on the
\* second line, two on one line, and a multi-line one that ends at a
\* smaller column than it starts.
ParseTexts ==
    {<<>>,
     <<"$", "{", "}">>,
     <<"\n", "$", "{", "}">>,
     <<"$", "{", "}", "$", "{", "}">>,
     <<"a", "a", "$", "{", "\n", "}">>}

InitParse == InitOn(ParseTexts)

\* parse_yaml(result, map, collector) with a new collector, in either
\* build, the parser returning outcome.
ParseYaml(outcome) ==
    /\ pc = "done"
    /\ parser' = outcome
    /\ \E overflow_checks \in BOOLEAN :
         LET out == parse_yaml(outcome, position_deltas, diagnostics, overflow_checks)
         IN  /\ diagnostics' = out.diagnostics
             /\ parse_result' = out.parse_result
    /\ pc' = "parsed"
    /\ UNCHANGED <<text, result, mapVars, callVars, serverVars, stepVars>>

ParseNext ==
    \/ Preprocess
    \/ \E outcome \in ParserOutcomes : ParseYaml(outcome)

SpecParse == InitParse /\ [][ParseNext]_vars

\* C17: a pass whose rewritten text fails to parse adds exactly one
\* diagnostic, of error severity, and returns success = false and no value,
\* with nothing else collected; a pass whose rewritten text parses returns
\* success = true with the value and adds no diagnostic.
C17_ParseOutcomeDecidesDiagnostics ==
    pc = "parsed" =>
      IF parser.ok
      THEN /\ parse_result = [value |-> parser.value, success |-> TRUE]
           /\ diagnostics = <<>>
      ELSE /\ Len(diagnostics) = 1
           /\ diagnostics[1].severity = "ERROR"
           /\ parse_result = [value |-> NONE, success |-> FALSE]

\* The numbers a locator of a message of the model can hold.
RefNumbers == UNION {{nm[1], nm[2]} : nm \in LocatorPairs}

\* The locators of a message: offset, line number and column number of each
\* `at line N column M` it embeds, the numbers read to their last digit.
RefLocators(message) ==
    {loc \in {i \in 0..Len(message) : HasAt(message, i, AtLine)}
               \X RefNumbers \X RefNumbers :
        /\ HasAt(message, loc[1], Locator(loc[2], loc[3]))
        /\ LET end == loc[1] + Len(Locator(loc[2], loc[3]))
           IN  end = Len(message) \/ ~IsDigit(At(message, end))}

\* The locator that comes first in the message.
RefFirstLocator(message) ==
    LET locs == RefLocators(message)
    IN  CHOOSE loc \in locs : \A other \in locs : loc[1] <= other[1]

\* The zero-indexed position a message points at: that of its first
\* locator, (0, 0) without one.
RefErrorPosition(message) ==
    IF RefLocators(message) = {} THEN <<0, 0>>
    ELSE LET first == RefFirstLocator(message)
         IN  <<Max({first[2] - 1, 0}), Max({first[3] - 1, 0})>>

\* C18: the diagnostic of a parse failure starts at
\* adjust_position(max(N - 1, 0), max(M - 1, 0)) for the locator
\* `at line N column M` of the message, and at adjust_position(0, 0) when
\* the message has no locator; the subtraction stops at 0.
C18_DiagnosticPositionFromLocator ==
    (pc = "parsed" /\ ~parser.ok /\ diagnostics # <<>>) =>
      LET position == RefErrorPosition(parser.message)
      IN  /\ position[1] >= 0
          /\ position[2] >= 0
          /\ \E overflow_checks \in BOOLEAN :
               diagnostics[1].range.start =
                 adjust_position(position_deltas, position[1], position[2], overflow_checks)

\* C18 witness: a failure reported past a placeholder, whose diagnostic is
\* moved back, and one whose locator holds line 0 and column 0.
C18_Witness ==
    /\ pc = "parsed"
    /\ ~parser.ok
    /\ diagnostics # <<>>
    /\ \/ /\ RefLocators(parser.message) # {}
          /\ RefFirstLocator(parser.message)[2] = 1
          /\ diagnostics[1].range.start[2] < 14
          /\ expressions # <<>>
       \/ /\ RefLocators(parser.message) # {}
          /\ RefFirstLocator(parser.message)[2] = 0

\* clean is message with the locator loc, and the whitespace from offset i
\* up to it, cut out.
RefRemoved(message, loc, clean) ==
    \E i \in 0..loc[1] :
      /\ \A k \in i..(loc[1] - 1) : IsWhitespace(At(message, k))
      /\ clean = Slice(message, 0, i)
                   \o Slice(message, loc[1] + Len(Locator(loc[2], loc[3])), Len(message))

\* C19: for a parser message that embeds locators, the locator the
\* diagnostic position is taken from is the one removed from the message,
\* and the cleaned message embeds no locator; a message without a locator
\* is passed through unchanged.
C19_UsedLocatorIsRemoved ==
    (pc = "parsed" /\ ~parser.ok /\ diagnostics # <<>>) =>
      LET message == parser.message
          clean == diagnostics[1].message
      IN  IF RefLocators(message) = {} THEN clean = message
          ELSE /\ RefLocators(clean) = {}
               /\ \E loc \in RefLocators(message) :
                    /\ RefRemoved(message, loc, clean)
                    /\ \E overflow_checks \in BOOLEAN :
                         diagnostics[1].range.start =
                           adjust_position(position_deltas, Max({loc[2] - 1, 0}),
                                           Max({loc[3] - 1, 0}), overflow_checks)

\* ------------------------------------------------------ workflow validator
\* src/diagnostics/workflow_validator.rs.  A serde_yaml::Value is a record
\* with its kind; a mapping is the sequence of its entries in document
\* order.

Str(s) == [kind |-> "string", str |-> s]

Number(n) == [kind |-> "number", num |-> n]

Mapping(entries) == [kind |-> "mapping", entries |-> entries]

Sequence(items) == [kind |-> "sequence", items |-> items]

Entry(key, value) == [key |-> key, value |-> value]

\* value.as_mapping() is Some
IsMapping(value) == value.kind = "mapping"

\* value.as_sequence() is Some
IsSequence(value) == value.kind = "sequence"

\* key.as_str() is Some
IsStr(key) == key.kind = "string"

\* key.as_str() == Some(s)
KeyIs(key, s) == IsStr(key) /\ key.str = s

\* "main"
KeyMain == <<"m", "a", "i", "n">>

\* "steps"
KeySteps == <<"s", "t", "e", "p", "s">>

\* "params"
KeyParams == <<"p", "a", "r", "a", "m", "s">>

\* schema::STEP_ACTION_KEYWORDS
STEP_ACTION_KEYWORDS ==
    {<<"a", "s", "s", "i", "g", "n">>, <<"c", "a", "l", "l">>, <<"s", "w",
        "i", "t", "c", "h">>, <<"f", "o", "r">>, <<"p", "a", "r", "a", "l",
            "l", "e", "l">>, <<"t", "r", "y">>, <<"r", "a", "i", "s", "e">>,
                <<"r", "e", "t", "u", "r", "n">>, <<"n", "e", "x", "t">>}

\* schema::is_step_action
is_step_action(key) == key \in STEP_ACTION_KEYWORDS

\* is_step_modifier
is_step_modifier(key) ==
    key \in
      {<<"a", "r", "g", "s">>, <<"r", "e", "s", "u", "l", "t">>, <<"c", "o",
          "n", "d", "i", "t", "i", "o", "n">>, <<"v", "a", "l", "u", "e">>,
              <<"i", "n", "d", "e", "x">>, <<"r", "a", "n", "g", "e">>,
                  <<"i", "n">>, <<"b", "r", "a", "n", "c", "h", "e", "s">>,
                      <<"s", "h", "a", "r", "e", "d">>, <<"c", "o", "n", "c",
                          "u", "r", "r", "e", "n", "c", "y", "_", "l", "i",
                              "m", "i", "t">>, <<"e", "x", "c", "e", "p",
                                  "t", "i", "o", "n", "_", "p", "o", "l",
                                      "i", "c", "y">>, <<"e", "x", "c", "e",
                                          "p", "t">>, <<"r", "e", "t", "r",
                                              "y">>, <<"a", "s">>, <<"s",
                                                  "t", "e", "p", "s">>,
                                                      <<"p", "r", "e", "d",
                                                          "i", "c", "a", "t",
                                                              "e">>, <<"m",
                                                                  "a", "x",
                                                                      "_",
                                                                          "r", "e", "t", "r", "i", "e", "s">>, <<"b", "a", "c", "k", "o", "f", "f">>, <<"i", "n", "i", "t", "i", "a", "l", "_", "d", "e", "l", "a", "y">>, <<"m", "a", "x", "_", "d", "e", "l", "a", "y">>, <<"m", "u", "l", "t", "i", "p", "l", "i", "e", "r">>, <<"p", "a", "r", "a", "m", "s">>, <<"n", "e", "x", "t">>}

\* str::lines: the lines of the text without their terminators (a line feed,
\* with the carriage return before it); what follows the last line feed is a
\* line unless it is empty.
RECURSIVE LinesLoop(_, _, _, _)
LinesLoop(bytes, i, line, lines) ==
    IF i >= Len(bytes) THEN IF line = <<>> THEN lines ELSE Append(lines, line)
    ELSE IF At(bytes, i) = "\n"
         THEN LinesLoop(bytes, i + 1, <<>>,
                        Append(lines,
                               IF line # <<>> /\ line[Len(line)] = "\r"
                               THEN SubSeq(line, 1, Len(line) - 1)
                               ELSE line))
    ELSE LinesLoop(bytes, i + 1, Append(line, At(bytes, i)), lines)

\* LineIndex::new(text)
LineIndex(bytes) == LinesLoop(bytes, 0, <<>>, <<>>)

\* str::trim
RECURSIVE trim(_)
trim(line) ==
    IF line = <<>> THEN line
    ELSE IF IsWhitespace(Head(line)) THEN trim(Tail(line))
    ELSE IF IsWhitespace(line[Len(line)]) THEN trim(SubSeq(line, 1, Len(line) - 1))
    ELSE line

\* str::starts_with
starts_with(line, pattern) ==
    Len(pattern) <= Len(line) /\ SubSeq(line, 1, Len(pattern)) = pattern

\* The loop of LineIndex::find_key over the lines from the one of index i.
RECURSIVE FindKeyLoop(_, _, _)
FindKeyLoop(lines, i, key) ==
    IF i >= Len(lines) THEN NONE
    ELSE LET pattern == key \o <<":">>
             list_pattern == <<"-", " ">> \o key \o <<":">>
             trimmed == trim(At(lines, i))
         IN  IF \/ starts_with(trimmed, pattern)
                \/ starts_with(trimmed, list_pattern)
                \/ trimmed = key
                \/ trimmed = key \o <<":">>
             THEN i
             ELSE FindKeyLoop(lines, i + 1, key)

\* LineIndex::find_key
find_key(lines, key) == FindKeyLoop(lines, 0, key)

\* find_key_line: unwrap_or(0)
find_key_line(lines, key) ==
    IF find_key(lines, key) = NONE THEN 0 ELSE find_key(lines, key)

\* mapping.keys().any(|k| k.as_str().map_or(false, |s| s is one of keys))
AnyKey(entries, keys) ==
    \E k \in 1..Len(entries) : IsStr(entries[k].key) /\ entries[k].key.str \in keys

\* is_likely_subworkflow
is_likely_subworkflow(value) ==
    IsMapping(value) /\ AnyKey(value.entries, {KeyParams, KeySteps})

\* format!("Unknown step action: '{}'", s)
UnknownStepAction(s) ==
    <<"U", "n", "k", "n", "o", "w", "n", " ", "s", "t", "e", "p", " ", "a",
        "c", "t", "i", "o", "n", ":", " ", "'">> \o s \o <<"'">>

\* The loop of validate_step_body over the keys of a step body.
RECURSIVE StepBodyLoop(_, _, _, _)
StepBodyLoop(entries, k, lines, collected) ==
    IF k > Len(entries) THEN collected
    ELSE LET key == entries[k].key
         IN  IF IsStr(key) /\ ~is_step_action(key.str) /\ ~is_step_modifier(key.str)
             THEN StepBodyLoop(entries, k + 1, lines,
                               add_hint(collected, UnknownStepAction(key.str),
                                        find_key_line(lines, key.str), 0))
             ELSE StepBodyLoop(entries, k + 1, lines, collected)

\* validate_step_body
validate_step_body(value, lines, collected) ==
    IF ~IsMapping(value) THEN collected
    ELSE StepBodyLoop(value.entries, 1, lines, collected)

\* "Step should have exactly one named key"
StepOneKey ==
    <<"S", "t", "e", "p", " ", "s", "h", "o", "u", "l", "d", " ", "h", "a",
        "v", "e", " ", "e", "x", "a", "c", "t", "l", "y", " ", "o", "n", "e",
            " ", "n", "a", "m", "e", "d", " ", "k", "e", "y">>

\* The loop of validate_steps over the entries of one step.
RECURSIVE StepEntriesLoop(_, _, _, _)
StepEntriesLoop(entries, k, lines, collected) ==
    IF k > Len(entries) THEN collected
    ELSE StepEntriesLoop(entries, k + 1, lines,
                         validate_step_body(entries[k].value, lines, collected))

\* One iteration of the loop of validate_steps: the step.
ValidateStep(step, lines, collected) ==
    IF ~IsMapping(step) THEN collected
    ELSE LET entries == step.entries
             counted ==
               IF Len(entries) # 1 /\ entries # <<>> /\ IsStr(entries[1].key)
               THEN add_workflow_warning_with_code(
                        collected, StepOneKey,
                        find_key_line(lines, entries[1].key.str), 0,
                        "workflow-structure")
               ELSE collected
         IN  StepEntriesLoop(entries, 1, lines, counted)

\* The loop of validate_steps over the steps.
RECURSIVE StepsLoop(_, _, _, _)
StepsLoop(steps, k, lines, collected) ==
    IF k > Len(steps) THEN collected
    ELSE StepsLoop(steps, k + 1, lines, ValidateStep(steps[k], lines, collected))

\* "'steps' must be a list"
StepsNotList ==
    <<"'", "s", "t", "e", "p", "s", "'", " ", "m", "u", "s", "t", " ", "b",
        "e", " ", "a", " ", "l", "i", "s", "t">>

\* validate_steps
validate_steps(value, lines, collected) ==
    IF ~IsSequence(value)
    THEN add_workflow_warning(collected, StepsNotList, find_key_line(lines, KeySteps), 0)
    ELSE StepsLoop(value.items, 1, lines, collected)

\* format!("'{}' block must be a mapping", name)
BlockNotMapping(name) ==
    <<"'">> \o name \o <<"'", " ", "b", "l", "o", "c", "k", " ", "m", "u",
        "s", "t", " ", "b", "e", " ", "a", " ", "m", "a", "p", "p", "i", "n",
            "g">>

\* format!("'{}' block must contain 'steps'", name)
BlockWithoutSteps(name) ==
    <<"'">> \o name \o <<"'", " ", "b", "l", "o", "c", "k", " ", "m", "u",
        "s", "t", " ", "c", "o", "n", "t", "a", "i", "n", " ", "'", "s", "t",
            "e", "p", "s", "'">>

\* format!("Unknown key '{}' in workflow block '{}'", s, name)
UnknownBlockKey(s, name) ==
    <<"U", "n", "k", "n", "o", "w", "n", " ", "k", "e", "y", " ", "'">> \o s
      \o <<"'", " ", "i", "n", " ", "w", "o", "r", "k", "f", "l", "o", "w",
          " ", "b", "l", "o", "c", "k", " ", "'">> \o name \o <<"'">>

\* The first loop of validate_workflow_block: validate_steps on the value
\* of each key "steps".
RECURSIVE BlockStepsLoop(_, _, _, _)
BlockStepsLoop(entries, k, lines, collected) ==
    IF k > Len(entries) THEN collected
    ELSE BlockStepsLoop(entries, k + 1, lines,
                        IF KeyIs(entries[k].key, KeySteps)
                        THEN validate_steps(entries[k].value, lines, collected)
                        ELSE collected)

\* The second loop of validate_workflow_block: a hint for each key that is
\* not one of valid_keys.
RECURSIVE BlockKeysLoop(_, _, _, _, _)
BlockKeysLoop(entries, k, name, lines, collected) ==
    IF k > Len(entries) THEN collected
    ELSE LET key == entries[k].key
         IN  BlockKeysLoop(entries, k + 1, name, lines,
                           IF IsStr(key) /\ key.str \notin {KeyParams, KeySteps}
                           THEN add_hint(collected, UnknownBlockKey(key.str, name),
                                         find_key_line(lines, key.str), 0)
                           ELSE collected)

\* validate_workflow_block
validate_workflow_block(value, name, lines, collected) ==
    IF ~IsMapping(value)
    THEN add_workflow_warning(collected, BlockNotMapping(name),
                              find_key_line(lines, name), 0)
    ELSE IF ~AnyKey(value.entries, {KeySteps})
    THEN add_workflow_warning(collected, BlockWithoutSteps(name),
                              find_key_line(lines, name), 0)
    ELSE BlockKeysLoop(value.entries, 1, name, lines,
                       BlockStepsLoop(value.entries, 1, lines, collected))

\* "Workflow document must be a YAML mapping"
DocumentNotMapping ==
    <<"W", "o", "r", "k", "f", "l", "o", "w", " ", "d", "o", "c", "u", "m",
        "e", "n", "t", " ", "m", "u", "s", "t", " ", "b", "e", " ", "a", " ",
            "Y", "A", "M", "L", " ", "m", "a", "p", "p", "i", "n", "g">>

\* "Workflow must have a 'main' block"
MainMissing ==
    <<"W", "o", "r", "k", "f", "l", "o", "w", " ", "m", "u", "s", "t", " ",
        "h", "a", "v", "e", " ", "a", " ", "'", "m", "a", "i", "n", "'", " ",
            "b", "l", "o", "c", "k">>

\* format!("Unknown workflow element: '{}'", key_str)
UnknownElement(key_str) ==
    <<"U", "n", "k", "n", "o", "w", "n", " ", "w", "o", "r", "k", "f", "l",
        "o", "w", " ", "e", "l", "e", "m", "e", "n", "t", ":", " ",
            "'">> \o key_str \o <<"'">>

\* The loop of validate_workflow over the entries of the top-level mapping:
\* the collector and has_main afterwards.
RECURSIVE WorkflowLoop(_, _, _, _, _)
WorkflowLoop(entries, k, lines, collected, has_main) ==
    IF k > Len(entries) THEN [diagnostics |-> collected, has_main |-> has_main]
    ELSE LET key == entries[k].key
             val == entries[k].value
         IN  IF ~IsStr(key) THEN WorkflowLoop(entries, k + 1, lines, collected, has_main)
             ELSE LET key_str == key.str
                      key_line == find_key_line(lines, key_str)
                  IN  IF key_str = KeyMain
                      THEN WorkflowLoop(entries, k + 1, lines,
                                        validate_workflow_block(val, key_str, lines, collected),
                                        TRUE)
                      ELSE IF is_likely_subworkflow(val)
                      THEN WorkflowLoop(entries, k + 1, lines,
                                        validate_workflow_block(val, key_str, lines, collected),
                                        has_main)
                      ELSE WorkflowLoop(entries, k + 1, lines,
                                        add_hint(collected, UnknownElement(key_str),
                                                 key_line, 0),
                                        has_main)

\* A validator that asks for a main block in an empty mapping too.
validate_workflow_EmptyToo(value, rewritten, collected) ==
    IF ~IsMapping(value)
    THEN add_workflow_warning(collected, DocumentNotMapping, 0, 0)
    ELSE LET out == WorkflowLoop(value.entries, 1, LineIndex(rewritten), collected, FALSE)
         IN  IF ~out.has_main
             THEN add_workflow_warning(out.diagnostics, MainMissing, 0, 0)
             ELSE out.diagnostics

\* validate_workflow(value, text, collector): the collector afterwards.
validate_workflow(value, rewritten, collected) ==
    IF ~IsMapping(value)
    THEN add_workflow_warning(collected, DocumentNotMapping, 0, 0)
    ELSE LET out == WorkflowLoop(value.entries, 1, LineIndex(rewritten), collected, FALSE)
         IN  IF ~out.has_main /\ value.entries # <<>>
             THEN add_workflow_warning(out.diagnostics, MainMissing, 0, 0)
             ELSE out.diagnostics

\* ---------------------------------------------------- workflow documents
\* The documents the validator is run on.  A document is written in block
\* style; the parser, which is not part of the repository, is modelled by
\* what it returns for such a text: the value whose block style is the text.

\* The scalar a
ScalarA == Str(<<"a">>)

\* The expression ${a}, written where a scalar stands.
ExprA == Str(<<"$", "{", "a", "}">>)

IsScalar(value) == value.kind \in {"string", "number"}

\* A scalar as it is written.
Scalar(value) == IF value.kind = "string" THEN value.str ELSE Decimal(value.num)

Spaces(n) == [k \in 1..n |-> " "]

RECURSIVE Render(_, _)
RECURSIVE RenderEntries(_, _, _)
RECURSIVE RenderItems(_, _, _)

\* The entries of a block mapping from the k-th, each at the indentation.
RenderEntries(entries, k, indent) ==
    IF k > Len(entries) THEN <<>>
    ELSE LET entry == entries[k]
             head == Spaces(indent) \o Scalar(entry.key) \o <<":">>
             line ==
               IF IsScalar(entry.value)
               THEN head \o <<" ">> \o Scalar(entry.value) \o <<"\n">>
               ELSE IF IsMapping(entry.value) /\ entry.value.entries = <<>>
               THEN head \o <<" ", "{", "}", "\n">>
               ELSE IF IsSequence(entry.value) /\ entry.value.items = <<>>
               THEN head \o <<" ", "[", "]", "\n">>
               ELSE head \o <<"\n">> \o Render(entry.value, indent + 2)
         IN  line \o RenderEntries(entries, k + 1, indent)

\* The items of a block sequence from the k-th: a dash, then the item with
\* its first line on the line of the dash.
RenderItems(items, k, indent) ==
    IF k > Len(items) THEN <<>>
    ELSE LET item == Render(items[k], indent + 2)
         IN  Spaces(indent) \o <<"-", " ">>
               \o SubSeq(item, indent + 3, Len(item))
               \o RenderItems(items, k + 1, indent)

\* The value in block style at the indentation.
Render(value, indent) ==
    IF IsMapping(value)
    THEN IF value.entries = <<>> THEN Spaces(indent) \o <<"{", "}", "\n">>
         ELSE RenderEntries(value.entries, 1, indent)
    ELSE IF IsSequence(value)
    THEN IF value.items = <<>> THEN Spaces(indent) \o <<"[", "]", "\n">>
         ELSE RenderItems(value.items, 1, indent)
    ELSE Spaces(indent) \o Scalar(value) \o <<"\n">>

\* The number of expressions written in the document.
RECURSIVE ExprCount(_)
ExprCount(value) ==
    IF IsMapping(value)
    THEN Sum([k \in 1..Len(value.entries) |->
                ExprCount(value.entries[k].key) + ExprCount(value.entries[k].value)],
             1..Len(value.entries))
    ELSE IF IsSequence(value)
    THEN Sum([k \in 1..Len(value.items) |-> ExprCount(value.items[k])],
             1..Len(value.items))
    ELSE IF value = ExprA THEN 1 ELSE 0

\* The value read from the rewritten text of a document with one
\* expression at most: the placeholder of ordinal 0 stands for the
\* expression, as a plain scalar.
RECURSIVE Reading(_)
Reading(value) ==
    IF IsMapping(value)
    THEN Mapping([k \in 1..Len(value.entries) |->
                    Entry(Reading(value.entries[k].key),
                          Reading(value.entries[k].value))])
    ELSE IF IsSequence(value)
    THEN Sequence([k \in 1..Len(value.items) |-> Reading(value.items[k])])
    ELSE IF value = ExprA THEN Str(Placeholder(0)) ELSE value

\* "call"
KeyCall == <<"c", "a", "l", "l">>

StepBodies ==
    {ScalarA,
     Mapping(<<Entry(Str(KeyCall), ScalarA)>>),
     Mapping(<<Entry(Str(KeyCall), ExprA)>>),
     Mapping(<<Entry(ScalarA, ScalarA)>>),
     Mapping(<<Entry(ExprA, ScalarA)>>)}

StepsValues ==
    {ScalarA, Sequence(<<>>), Sequence(<<ScalarA>>),
     Sequence(<<Mapping(<<Entry(ScalarA, ScalarA), Entry(Str(<<"b">>), ScalarA)>>)>>),
     Sequence(<<Mapping(<<Entry(Number(1), ScalarA), Entry(ScalarA, ScalarA)>>)>>)}
      \cup {Sequence(<<Mapping(<<Entry(ScalarA, body)>>)>>) : body \in StepBodies}

Blocks ==
    {ScalarA,
     Mapping(<<Entry(ScalarA, ScalarA)>>),
     Mapping(<<Entry(Str(KeyParams), ScalarA), Entry(Str(KeySteps), Sequence(<<ScalarA>>)),
               Entry(ScalarA, ScalarA)>>),
     Mapping(<<Entry(Str(KeySteps), Sequence(<<ScalarA>>)), Entry(ExprA, ScalarA)>>)}
      \cup {Mapping(<<Entry(Str(KeySteps), steps)>>) : steps \in StepsValues}

TopKeys == {Str(KeyMain), Str(<<"w">>), ExprA, Number(1)}

\* A block that passes and one that does not.
PairBlocks == {ScalarA, Mapping(<<Entry(Str(KeySteps), Sequence(<<ScalarA>>))>>)}

WorkflowDocs ==
    LET docs ==
          {ScalarA, Sequence(<<ScalarA>>), Mapping(<<>>)}
            \cup {Mapping(<<Entry(key, block)>>) : key \in TopKeys, block \in Blocks}
            \cup {Mapping(<<Entry(Str(KeyMain), main), Entry(key, block)>>) :
                    key \in TopKeys \ {Str(KeyMain)}, main \in PairBlocks,
                    block \in PairBlocks}
            \cup {Mapping(<<Entry(key, block), Entry(Str(KeyMain), main)>>) :
                    key \in TopKeys \ {Str(KeyMain)}, main \in PairBlocks,
                    block \in PairBlocks}
    IN  {doc \in docs : ExprCount(doc) <= 1}

WorkflowTexts == {Render(doc, 0) : doc \in WorkflowDocs}

\* What the parser returns for the rewritten text of the document text.
DocumentOutcomes(doc_text, rewritten) ==
    {[ok |-> TRUE, value |-> Reading(doc)] :
       doc \in {d \in WorkflowDocs :
                  Render(d, 0) = doc_text /\ Render(Reading(d), 0) = rewritten}}

\* ---------------------------------------------------------------- backend
\* src/backend.rs: the document table and the did_open, did_change and
\* did_close handlers.  A
\* handler is suspended at its await points, the acquisition of the write
\* lock and the sending of the notification, and other handlers run
\* meanwhile.

Uris == {"u1", "u2"}

\* The texts the client sends.
ServerTexts == {<<"a">>, <<"$", "{", "}">>}

\* What the parser returns for a text the client sent.
ServerOutcomes(doc_text) ==
    {[ok |-> TRUE, value |-> Str(preprocess_expressions(doc_text).result)],
     [ok |-> FALSE, message |-> <<"e", " ">> \o Locator(2, 1)]}

\* Document::new(text, version)
Document(doc_text, version) == [text |-> doc_text, version |-> version]

\* docs.insert(uri, document)
Insert(docs, uri, document) ==
    [u \in (DOMAIN docs) \cup {uri} |-> IF u = uri THEN document ELSE docs[u]]

\* Backend::compute_diagnostics(text), the parser returning outcome: the
\* diagnostics of the collector, and whether parse_yaml panicked.
compute_diagnostics(doc_text, outcome, overflow_checks) ==
    LET out == preprocess_expressions(doc_text)
        parsed == parse_yaml(outcome, out.position_deltas, <<>>, overflow_checks)
    IN  [panicked |-> parsed.parse_result = Panicked, diagnostics |-> parsed.diagnostics]

\* compute_diagnostics of tests/integration_tests.rs, the pipeline with the
\* structural validation: the validator runs on the value when there is one.
pipeline_compute_diagnostics(doc_text, outcome, overflow_checks) ==
    LET out == preprocess_expressions(doc_text)
        parsed == parse_yaml(outcome, out.position_deltas, <<>>, overflow_checks)
    IN  IF parsed.parse_result = Panicked
        THEN [panicked |-> TRUE, diagnostics |-> parsed.diagnostics]
        ELSE [panicked |-> FALSE,
              diagnostics |->
                IF parsed.parse_result.success
                THEN validate_workflow(parsed.parse_result.value, out.result,
                                       parsed.diagnostics)
                ELSE parsed.diagnostics]

\* Backend::new: an empty document table, no handler running, nothing
\* published.
InitServer ==
    /\ text = <<>>
    /\ pc = "serving"
    /\ result = <<>>
    /\ expressions = <<>>
    /\ position_deltas = <<>>
    /\ query = NoQuery
    /\ adjusted = NoQuery
    /\ within = NoQuery
    /\ found = NoQuery
    /\ parser = NoQuery
    /\ diagnostics = <<>>
    /\ parse_result = NoQuery
    /\ documents = <<>>
    /\ handlers = <<>>
    /\ published = <<>>
    /\ call = NoCall
    /\ scan = NoQuery

\* did_open is called with the text and version of uri; the handler waits
\* for the write lock.  The version is the number of the notification.
DidOpen(uri, open_text) ==
    /\ pc = "serving"
    /\ Len(handlers) < MaxChanges
    /\ handlers' = Append(handlers,
                          [kind |-> "open", uri |-> uri, text |-> open_text,
                           version |-> Len(handlers) + 1, has_change |-> TRUE,
                           pc |-> "lock"])
    /\ UNCHANGED <<text, pc, result, mapVars, callVars, parseVars, documents, published, stepVars>>

\* did_change is called with the next version of uri; has_change is false
\* when content_changes is empty, and the handler then returns at once.
\* Otherwise it waits for the write lock.
DidChange(uri, change_text, has_change) ==
    /\ pc = "serving"
    /\ Len(handlers) < MaxChanges
    /\ handlers' = Append(handlers,
                          [kind |-> "change", uri |-> uri, text |-> change_text,
                           version |-> Len(handlers) + 1, has_change |-> has_change,
                           pc |-> IF has_change THEN "lock" ELSE "done"])
    /\ UNCHANGED <<text, pc, result, mapVars, callVars, parseVars, documents, published, stepVars>>

\* did_close is called for uri; the handler waits for the write lock.  The
\* notification carries no text and no version.
DidClose(uri) ==
    /\ pc = "serving"
    /\ Len(handlers) < MaxChanges
    /\ handlers' = Append(handlers,
                          [kind |-> "close", uri |-> uri, text |-> <<>>,
                           version |-> NONE, has_change |-> FALSE,
                           pc |-> "lock"])
    /\ UNCHANGED <<text, pc, result, mapVars, callVars, parseVars, documents, published, stepVars>>

\* The block of did_open and did_change that holds the write lock:
\* docs.insert(uri, Document::new(text, version)), and the lock is released
\* at the end of the block.
Store(h) ==
    /\ handlers[h].pc = "lock"
    /\ documents' = Insert(documents, handlers[h].uri,
                           Document(handlers[h].text, handlers[h].version))
    /\ handlers' = [handlers EXCEPT ![h].pc = "publish"]
    /\ UNCHANGED <<text, pc, result, mapVars, callVars, parseVars, published, stepVars>>

\* validate_document run by handler h: it computes the diagnostics of its
\* own text and sends them with its version.  A panic ends the handler.
ValidateDocument(h) ==
    /\ handlers[h].pc = "publish"
    /\ \E outcome \in ServerOutcomes(handlers[h].text), overflow_checks \in BOOLEAN :
         LET computed == compute_diagnostics(handlers[h].text, outcome, overflow_checks)
         IN  published' =
               IF computed.panicked THEN published
               ELSE Append(published, [uri |-> handlers[h].uri,
                                       diagnostics |-> computed.diagnostics,
                                       version |-> handlers[h].version])
    /\ handlers' = [handlers EXCEPT ![h].pc = "done"]
    /\ UNCHANGED <<text, pc, result, mapVars, callVars, parseVars, documents, stepVars>>

\* Handler h of did_open holds the write lock.
DidOpenStore(h) == handlers[h].kind = "open" /\ Store(h)

\* Handler h of did_open runs validate_document.
DidOpenPublish(h) == handlers[h].kind = "open" /\ ValidateDocument(h)

\* Handler h of did_change holds the write lock.
DidChangeStore(h) == handlers[h].kind = "change" /\ Store(h)

\* Handler h of did_change runs validate_document.
DidChangePublish(h) == handlers[h].kind = "change" /\ ValidateDocument(h)

\* docs.remove(uri)
Remove(docs, uri) == [u \in (DOMAIN docs) \ {uri} |-> docs[u]]

\* Handler h of did_close holds the write lock: docs.remove(&uri), and the
\* lock is released at the end of the block.
DidCloseRemove(h) ==
    /\ handlers[h].kind = "close"
    /\ handlers[h].pc = "lock"
    /\ documents' = Remove(documents, handlers[h].uri)
    /\ handlers' = [handlers EXCEPT ![h].pc = "publish"]
    /\ UNCHANGED <<text, pc, result, mapVars, callVars, parseVars, published, stepVars>>

\* Handler h of did_close sends the empty diagnostic list, without version.
DidClosePublish(h) ==
    /\ handlers[h].kind = "close"
    /\ handlers[h].pc = "publish"
    /\ published' = Append(published, [uri |-> handlers[h].uri,
                                       diagnostics |-> <<>>,
                                       version |-> NONE])
    /\ handlers' = [handlers EXCEPT ![h].pc = "done"]
    /\ UNCHANGED <<text, pc, result, mapVars, callVars, parseVars, documents, stepVars>>

\* A step of a handler in progress.
HandlerStep ==
    \/ \E h \in DOMAIN handlers : DidOpenStore(h)
    \/ \E h \in DOMAIN handlers : DidOpenPublish(h)
    \/ \E h \in DOMAIN handlers : DidChangeStore(h)
    \/ \E h \in DOMAIN handlers : DidChangePublish(h)
    \/ \E h \in DOMAIN handlers : DidCloseRemove(h)
    \/ \E h \in DOMAIN handlers : DidClosePublish(h)

\* The server with its handlers interleaved at their await points.
ServerNext ==
    \/ \E uri \in Uris, open_text \in ServerTexts : DidOpen(uri, open_text)
    \/ \E uri \in Uris, change_text \in ServerTexts, has_change \in BOOLEAN :
         DidChange(uri, change_text, has_change)
    \/ \E uri \in Uris : DidClose(uri)
    \/ HandlerStep

SpecServer == InitServer /\ [][ServerNext]_vars

\* No handler is between its start and its end.
Idle == \A h \in DOMAIN handlers : handlers[h].pc = "done"

\* The server with each notification handled to its end before the next
\* one is taken.
SessionNext ==
    \/ Idle /\ \E uri \in Uris, open_text \in ServerTexts : DidOpen(uri, open_text)
    \/ Idle /\ \E uri \in Uris, change_text \in ServerTexts, has_change \in BOOLEAN :
                 DidChange(uri, change_text, has_change)
    \/ Idle /\ \E uri \in Uris : DidClose(uri)
    \/ HandlerStep

SpecSession == InitServer /\ [][SessionNext]_vars

\* The notifications for uri that were taken, oldest first, of the kinds.
NotificationsFor(uri, kinds) ==
    SelectSeq(handlers, LAMBDA n : n.uri = uri /\ n.kind \in kinds)

\* The notifications published for uri, in order.
PublishedFor(uri) == SelectSeq(published, LAMBDA n : n.uri = uri)

\* No handler for uri is between its start and its end.
Settled(uri) ==
    \A h \in DOMAIN handlers : handlers[h].uri = uri => handlers[h].pc = "done"

\* C20: when the did_change handlers of a document have run, interleaved
\* at their await points, the diagnostics published last are those of the
\* version stored last in the document table.
C20_LastPublishedIsLastStored ==
    \A uri \in DOMAIN documents :
      (/\ Settled(uri)
       /\ PublishedFor(uri) # <<>>
       /\ NotificationsFor(uri, {"open", "close"}) = <<>>)
      => PublishedFor(uri)[Len(PublishedFor(uri))].version = documents[uri].version

\* ------------------------------------------------------ document lifecycle

\* uri has been opened and not closed since.
OpenedNotClosed(uri) ==
    LET ns == NotificationsFor(uri, {"open", "close"})
    IN  ns # <<>> /\ ns[Len(ns)].kind = "open"

\* The opens of uri and its changes that carry a text.
Writes(uri) ==
    SelectSeq(NotificationsFor(uri, {"open", "change"}), LAMBDA n : n.has_change)

\* C21: when the open, change and close notifications have been handled one
\* at a time, the document table has an entry for a document exactly when
\* the document has been opened and not closed since, and the entry is the
\* text and version of its most recent open or change; a change for a
\* document that is not open creates no entry.
C21_TableFollowsOpenAndClose ==
    Idle =>
      \A uri \in Uris :
        /\ (uri \in DOMAIN documents) <=> OpenedNotClosed(uri)
        /\ (uri \in DOMAIN documents /\ Writes(uri) # <<>>) =>
             LET last == Writes(uri)[Len(Writes(uri))]
             IN  documents[uri] = Document(last.text, last.version)

\* C27: once a did_close handler has run to its end, and the did_change
\* handlers started before it too, and no notification for the document
\* was taken after it, the table has no entry for the document and the
\* diagnostics published last for it are the empty list, however the
\* handlers were interleaved.
C27_ClosedDocumentStaysCleared ==
    \A h \in DOMAIN handlers :
      (/\ handlers[h].kind = "close"
       /\ \A g \in 1..h : handlers[g].pc = "done"
       /\ \A g \in 1..(h - 1) : handlers[g].kind = "change"
       /\ \A g \in (h + 1)..Len(handlers) : handlers[g].uri # handlers[h].uri)
      => LET uri == handlers[h].uri
         IN  /\ uri \notin DOMAIN documents
             /\ PublishedFor(uri) # <<>>
             /\ PublishedFor(uri)[Len(PublishedFor(uri))].diagnostics = <<>>

\* -------------------------------------------------- the diagnostic collector
\* src/diagnostics/yaml_errors.rs: the add_* methods called on one collector.

CollectorMessages == {<<"e">>, <<"q", "u", "o", "t", "e">>}

CollectorLines == {0, 5}

CollectorColumns == {0, 10}

\* The codes passed to the *_with_code and *_with_range methods.
CollectorCodes == {"yaml-syntax", "workflow-structure"}

\* DiagnosticCollector::new(): nothing collected.
InitCollector ==
    /\ text = <<>>
    /\ pc = "collecting"
    /\ result = <<>>
    /\ expressions = <<>>
    /\ position_deltas = <<>>
    /\ query = NoQuery
    /\ adjusted = NoQuery
    /\ within = NoQuery
    /\ found = NoQuery
    /\ parser = NoQuery
    /\ diagnostics = <<>>
    /\ parse_result = NoQuery
    /\ documents = <<>>
    /\ handlers = <<>>
    /\ published = <<>>
    /\ call = NoCall
    /\ scan = NoQuery

\* The record of one more add_* call.
Call(op, message, line, column, end_line, end_column, code) ==
    [op |-> op, message |-> message, line |-> line, column |-> column,
     end_line |-> end_line, end_column |-> end_column, code |-> code,
     n |-> call.n + 1]

\* What a call on the collector leaves alone.
CollectorUnchanged ==
    UNCHANGED <<text, pc, result, mapVars, callVars, parser, parse_result,
                serverVars, scan>>

AddYamlError(message, line, column) ==
    /\ pc = "collecting"
    /\ call.n < MaxCalls
    /\ diagnostics' = add_yaml_error(diagnostics, message, line, column)
    /\ call' = Call("add_yaml_error", message, line, column, 0, 0, "")
    /\ CollectorUnchanged

AddYamlErrorWithCode(message, line, column, code) ==
    /\ pc = "collecting"
    /\ call.n < MaxCalls
    /\ diagnostics' = add_yaml_error_with_code(diagnostics, message, line, column, code)
    /\ call' = Call("add_yaml_error_with_code", message, line, column, 0, 0, code)
    /\ CollectorUnchanged

AddYamlErrorWithRange(message, start_line, start_column, end_line, end_column, code) ==
    /\ pc = "collecting"
    /\ call.n < MaxCalls
    /\ diagnostics' = add_yaml_error_with_range(diagnostics, message, start_line,
                                                start_column, end_line, end_column, code)
    /\ call' = Call("add_yaml_error_with_range", message, start_line, start_column,
                    end_line, end_column, code)
    /\ CollectorUnchanged

AddWorkflowWarning(message, line, column) ==
    /\ pc = "collecting"
    /\ call.n < MaxCalls
    /\ diagnostics' = add_workflow_warning(diagnostics, message, line, column)
    /\ call' = Call("add_workflow_warning", message, line, column, 0, 0, "")
    /\ CollectorUnchanged

AddWorkflowWarningWithCode(message, line, column, code) ==
    /\ pc = "collecting"
    /\ call.n < MaxCalls
    /\ diagnostics' = add_workflow_warning_with_code(diagnostics, message, line,
                                                     column, code)
    /\ call' = Call("add_workflow_warning_with_code", message, line, column, 0, 0, code)
    /\ CollectorUnchanged

AddHint(message, line, column) ==
    /\ pc = "collecting"
    /\ call.n < MaxCalls
    /\ diagnostics' = add_hint(diagnostics, message, line, column)
    /\ call' = Call("add_hint", message, line, column, 0, 0, "")
    /\ CollectorUnchanged

CollectorNext ==
    \/ \E message \in CollectorMessages, line \in CollectorLines,
          column \in CollectorColumns :
         AddYamlError(message, line, column)
    \/ \E line \in CollectorLines, column \in CollectorColumns, code \in CollectorCodes :
         AddYamlErrorWithCode(<<"e">>, line, column, code)
    \/ \E line \in CollectorLines, column \in CollectorColumns, code \in CollectorCodes :
         AddYamlErrorWithRange(<<"e">>, line, column, line + 1, 0, code)
    \/ \E line \in CollectorLines, column \in CollectorColumns :
         AddWorkflowWarning(<<"e">>, line, column)
    \/ \E line \in CollectorLines, column \in CollectorColumns, code \in CollectorCodes :
         AddWorkflowWarningWithCode(<<"e">>, line, column, code)
    \/ \E line \in CollectorLines, column \in CollectorColumns :
         AddHint(<<"e">>, line, column)

SpecCollector == InitCollector /\ [][CollectorNext]_vars

\* The severity the claim gives to the diagnostic of each method.
SeverityOf(op) ==
    CASE op \in {"add_yaml_error", "add_yaml_error_with_code",
                 "add_yaml_error_with_range"} -> "ERROR"
      [] op \in {"add_workflow_warning", "add_workflow_warning_with_code"} -> "WARNING"
      [] op = "add_hint" -> "HINT"

\* C25: each add_* call appends exactly one diagnostic after the collected
\* ones and leaves those unchanged, so that len() is the number of add_*
\* calls made and is_empty() holds exactly when there was none; the appended
\* diagnostic starts at the given line and column, has the severity of its
\* method (error, warning, hint), a category code and the source tag
\* yaml-tftpl-lsp, and without an explicit range ends one column further.
C25_CollectorIsAppendOnly ==
    [][pc = "collecting" =>
         /\ len(diagnostics) = call.n
         /\ is_empty(diagnostics) <=> call.n = 0
         /\ Len(diagnostics') = Len(diagnostics) + 1
         /\ SubSeq(diagnostics', 1, Len(diagnostics)) = diagnostics
         /\ len(diagnostics') = call'.n
         /\ ~is_empty(diagnostics')
         /\ LET added == diagnostics'[Len(diagnostics')]
            IN  /\ added.range.start = <<call'.line, call'.column>>
                /\ added.severity = SeverityOf(call'.op)
                /\ added.code \in DiagnosticCodes
                /\ added.source = "yaml-tftpl-lsp"
                /\ added.message = call'.message
                /\ call'.op # "add_yaml_error_with_range"
                     => added.range.end = <<call'.line, call'.column + 1>>
                /\ call'.op = "add_yaml_error_with_range"
                     => added.range.end = <<call'.end_line, call'.end_column>>
      ]_vars

\* A hint was appended after an error at another position.
C25_Witness ==
    /\ pc = "collecting"
    /\ call.op = "add_hint"
    /\ call.n = 2
    /\ diagnostics[1].severity = "ERROR"
    /\ diagnostics[1].range.start # diagnostics[2].range.start

\* ------------------------------------------------------------ the pipeline
\* tests/integration_tests.rs, compute_diagnostics: preprocess, parse, and
\* validate_workflow on the value and the rewritten text.  validate_workflow
\* takes the collector as it stands and may be called on it again.

InitPipeline == InitOn(WorkflowTexts)

ValidateWorkflow ==
    /\ pc \in {"parsed", "validated"}
    /\ parse_result # Panicked
    /\ parse_result.success
    /\ diagnostics' = validate_workflow(parse_result.value, result, diagnostics)
    /\ pc' = IF pc = "parsed" THEN "validated" ELSE "revalidated"
    /\ UNCHANGED <<text, result, mapVars, callVars, parser, parse_result,
                   serverVars, stepVars>>

PipelineNext ==
    \/ Preprocess
    \/ \E outcome \in DocumentOutcomes(text, result) : ParseYaml(outcome)
    \/ ParseYaml([ok |-> FALSE, message |-> <<"e">>])
    \/ ValidateWorkflow

SpecPipeline == InitPipeline /\ [][PipelineNext]_vars

\* C22: the diagnostics a did_open or did_change handler publishes for its
\* text are those of the pipeline with structural validation: when the
\* rewritten text parses, the findings of validate_workflow on the value
\* are in the published list.
C22_PublishedHasStructuralFindings ==
    \A k \in DOMAIN published :
      published[k].version # NONE =>
        LET doc_text == handlers[published[k].version].text
        IN  \E outcome \in ServerOutcomes(doc_text), overflow_checks \in BOOLEAN :
              LET piped == pipeline_compute_diagnostics(doc_text, outcome, overflow_checks)
              IN  ~piped.panicked /\ piped.diagnostics = published[k].diagnostics

\* C23: a call of validate_workflow keeps the diagnostics already in the
\* collector as they are and in place, and every finding it adds, one or
\* several, is a warning or a hint, never an error.
C23_FindingsAreWarningsOrHints ==
    [][(pc' \in {"validated", "revalidated"} /\ pc' # pc) =>
         /\ Len(diagnostics') >= Len(diagnostics)
         /\ SubSeq(diagnostics', 1, Len(diagnostics)) = diagnostics
         /\ \A k \in (Len(diagnostics) + 1)..Len(diagnostics') :
              diagnostics'[k].severity \in {"WARNING", "HINT"}
      ]_vars

\* A second call added a warning and a hint after the two of the first.
C23_Witness ==
    /\ pc = "revalidated"
    /\ Len(diagnostics) = 4
    /\ diagnostics[3].severity = "WARNING"
    /\ diagnostics[4].severity = "HINT"

\* "__EXPR_", the text every placeholder token starts with.
PlaceholderPrefix == <<"_", "_", "E", "X", "P", "R", "_">>

\* C24: for every document, also one with an expression where a key
\* stands, no finding of the validator names a placeholder token in its
\* message (the validator looks up in the rewritten text each key it names).
C24_NoPlaceholderInFindings ==
    pc = "validated" =>
      \A k \in DOMAIN diagnostics : ~Contains(diagnostics[k].message, PlaceholderPrefix)

\* The top-level mapping has the key main.
TopHasMain(value) ==
    \E k \in DOMAIN value.entries :
      value.entries[k].key.kind = "string" /\ value.entries[k].key.str = KeyMain

\* The findings with the message.
FindingsWith(message) == {k \in DOMAIN diagnostics : diagnostics[k].message = message}

\* C26: validate_workflow adds the warning that a main block is missing
\* exactly when the top-level value is a mapping with entries and no key
\* main, once; an empty mapping gets no finding; a top-level value that is
\* no mapping gets the warning that the document must be a mapping and
\* nothing else.
C26_MainWarningIffNoMainKey ==
    pc = "validated" =>
      LET value == parse_result.value
      IN  IF value.kind = "mapping"
          THEN /\ FindingsWith(MainMissing) # {}
                    <=> (value.entries # <<>> /\ ~TopHasMain(value))
               /\ Cardinality(FindingsWith(MainMissing)) <= 1
               /\ \A k \in FindingsWith(MainMissing) :
                    /\ diagnostics[k].severity = "WARNING"
                    /\ k = Len(diagnostics)
               /\ value.entries = <<>> => diagnostics = <<>>
               /\ FindingsWith(DocumentNotMapping) = {}
          ELSE /\ Len(diagnostics) = 1
               /\ diagnostics[1].severity = "WARNING"
               /\ diagnostics[1].message = DocumentNotMapping

\* The only top-level key looks like a subworkflow, and main is missed.
C26_Witness ==
    /\ pc = "validated"
    /\ parse_result.value.kind = "mapping"
    /\ Len(parse_result.value.entries) = 1
    /\ parse_result.value.entries[1].key = Str(<<"w">>)
    /\ parse_result.value.entries[1].value.kind = "mapping"
    /\ FindingsWith(MainMissing) # {}
    /\ Len(diagnostics) = 1

\* C29: finalize called on a finalized map, with no add since (the step
\* that leaves the map finalized and no query made), leaves the
\* expressions in their order and the delta table as they were, one delta
\* for each expression, and with them every value of adjust_position and
\* of is_within_expression.
C29_FinalizeIsIdempotent ==
    [][(pc = "finalized" /\ pc' = "finalized" /\ callVars' = <<NoQuery, NoQuery, NoQuery, NoQuery>>) =>
         /\ expressions' = expressions
         /\ position_deltas' = position_deltas
         /\ Len(position_deltas') = Len(expressions')
         /\ \A line \in MapLines, column \in MapColumns :
              /\ \A overflow_checks \in BOOLEAN :
                   adjust_position(position_deltas', line, column, overflow_checks)
                     = adjust_position(position_deltas, line, column, overflow_checks)
              /\ is_within_expression(position_deltas', line, column)
                   = is_within_expression(position_deltas, line, column)
      ]_vars

\* A finalized map of two expressions on one line, on which finalize can be
\* called again.
C29_Witness ==
    /\ pc = "finalized"
    /\ Len(expressions) = 2
    /\ Len(position_deltas) = 2
    /\ expressions[1].start_line = expressions[2].start_line
    /\ within # NoQuery

\* C30: for every expression on a single line, len_delta, counted in bytes,
\* is what adjust_position takes as the difference in columns (the columns
\* of the expression less the width of the placeholder), also when the
\* expression holds multi-byte characters; hence, on a line of single-line
\* expressions, the column the table gives to a placeholder is the column
\* at which the placeholder stands in the rewritten text.
C30_LenDeltaIsColumnDifference ==
    pc = "done" =>
      \A k \in DOMAIN expressions :
        LET expr == expressions[k]
            OnLine == {m \in DOMAIN expressions :
                         expressions[m].start_line = expr.start_line}
        IN  (\A m \in OnLine : expressions[m].start_line = expressions[m].end_line)
            => /\ len_delta(expr)
                    = (expr.end_column - expr.start_column) - placeholder_len(expr)
               /\ position_deltas[k].preprocessed_column
                    = PlaceholderColumn(result, expressions, k)

\* --------------------------------------------------- the scan, step by step
\* scan_expressions and find_matching_brace run one loop iteration at a
\* time.  scan holds the locals: the function and loop control is in (fn),
\* the cursor i and the matches of scan_expressions, the kind of the opener
\* whose brace is being matched, the cursor j, the depth and the quote of
\* find_matching_brace, and the indices of the bytes the last iteration
\* read.

ScanBytes == {"{", "}", "\"", "'", "\\", "$"}

ScanTexts == {<<"$", "{">> \o body : body \in SeqsUpTo(ScanBytes, MaxScanBody)}

Locals(fn, i, matches, kind, j, depth, quote, reads) ==
    [fn |-> fn, i |-> i, matches |-> matches, kind |-> kind, j |-> j,
     depth |-> depth, quote |-> quote, reads |-> reads]

\* scan_expressions is entered: matches is empty and i = 0.
InitScan ==
    /\ text \in ScanTexts
    /\ pc = "start"
    /\ result = <<>>
    /\ expressions = <<>>
    /\ position_deltas = <<>>
    /\ query = NoQuery
    /\ adjusted = NoQuery
    /\ within = NoQuery
    /\ found = NoQuery
    /\ parser = NoQuery
    /\ diagnostics = <<>>
    /\ parse_result = NoQuery
    /\ documents = <<>>
    /\ handlers = <<>>
    /\ published = <<>>
    /\ call = NoCall
    /\ scan = Locals("scan_expressions", 0, <<>>, "None", 0, 0, "", {})

\* The indices the opener tests of one iteration read, the tests being
\* evaluated from left to right and no further than needed.
OpenerReads(bytes, i) ==
    LET size == Len(bytes)
        workflows ==
          IF i + 2 < size
          THEN {i} \cup (IF At(bytes, i) = "$"
                         THEN {i + 1} \cup (IF At(bytes, i + 1) = "$" THEN {i + 2} ELSE {})
                         ELSE {})
          ELSE {}
        terraform ==
          IF i + 1 < size
          THEN {i} \cup (IF At(bytes, i) = "$"
                         THEN {i + 1} \cup (IF At(bytes, i + 1) = "{" /\ i > 0
                                            THEN {i - 1} ELSE {})
                         ELSE {})
          ELSE {}
    IN  IF OpenerAt(bytes, i) = "Workflows" THEN workflows ELSE workflows \cup terraform

\* One iteration of the loop of scan_expressions up to the call of
\* find_matching_brace, or the return when the loop is left.
ScanIteration ==
    /\ pc = "start"
    /\ scan.fn = "scan_expressions"
    /\ LET i == scan.i
           kind == IF i < Len(text) THEN OpenerAt(text, i) ELSE "None"
       IN  scan' =
             IF i >= Len(text)
             THEN [scan EXCEPT !.fn = "returned", !.reads = {}]
             ELSE IF kind = "None"
             THEN [scan EXCEPT !.i = i + 1, !.reads = OpenerReads(text, i)]
             ELSE [scan EXCEPT !.fn = "find_matching_brace", !.kind = kind,
                               !.j = i + BraceOffset(kind), !.depth = 0,
                               !.reads = OpenerReads(text, i) \cup {i + BraceOffset(kind)}]
    /\ UNCHANGED <<text, pc, result, mapVars, callVars, parseVars, serverVars, call>>

\* One iteration of the outer loop of find_matching_brace, or its return
\* of None when the loop is left; the return hands control back to
\* scan_expressions, which records the match and moves its cursor.
BraceIteration ==
    /\ pc = "start"
    /\ scan.fn = "find_matching_brace"
    /\ LET j == scan.j
           size == Len(text)
           ch == At(text, j)
       IN  scan' =
             IF j >= size
             THEN [scan EXCEPT !.fn = "scan_expressions", !.i = Resume(scan.i, NONE),
                               !.reads = {}]
             ELSE IF ch = "{"
             THEN [scan EXCEPT !.depth = scan.depth + 1, !.j = j + 1, !.reads = {j}]
             ELSE IF ch = "}"
             THEN IF scan.depth - 1 = 0
                  THEN [scan EXCEPT !.fn = "scan_expressions",
                                    !.matches = Append(scan.matches,
                                                       ExpressionMatch(text, scan.i, j + 1,
                                                                       scan.kind)),
                                    !.i = Resume(scan.i, j + 1),
                                    !.depth = 0,
                                    !.reads = {j}]
                  ELSE [scan EXCEPT !.depth = scan.depth - 1, !.j = j + 1, !.reads = {j}]
             ELSE IF ch \in {"\"", "'"}
             THEN IF j + 1 < size
                  THEN [scan EXCEPT !.fn = "string", !.quote = ch, !.j = j + 1,
                                    !.reads = {j}]
                  ELSE [scan EXCEPT !.j = j + 2, !.reads = {j}]
             ELSE [scan EXCEPT !.j = j + 1, !.reads = {j}]
    /\ UNCHANGED <<text, pc, result, mapVars, callVars, parseVars, serverVars, call>>

\* A string loop whose ordinary bytes do not move the cursor.
StringAdvance_Stuck(bytes, quote, j) ==
    IF At(bytes, j) = "\\" THEN j + 2 ELSE j

\* The match of one iteration of the loop that skips a string: the cursor
\* afterwards (unmoved at the closing quote).
StringAdvance(bytes, quote, j) ==
    IF At(bytes, j) = "\\" THEN j + 2
    ELSE IF At(bytes, j) = quote THEN j
    ELSE j + 1

\* One iteration of the loop that skips a string, entered with j < size.
\* The loop is left at the closing quote and when the cursor is at or past
\* the end; the outer loop then adds one to the cursor.
StringIteration ==
    /\ pc = "start"
    /\ scan.fn = "string"
    /\ LET j == scan.j
           next == StringAdvance(text, scan.quote, j)
           closed == At(text, j) # "\\" /\ At(text, j) = scan.quote
       IN  scan' =
             IF closed \/ next >= Len(text)
             THEN [scan EXCEPT !.fn = "find_matching_brace", !.j = next + 1,
                               !.reads = {j}]
             ELSE [scan EXCEPT !.j = next, !.reads = {j}]
    /\ UNCHANGED <<text, pc, result, mapVars, callVars, parseVars, serverVars, call>>

\* preprocess_expressions goes on with the matches scan_expressions
\* returned: the substitutions and finalize, loops over the matches.
ScanReturned ==
    /\ scan.fn = "returned"
    /\ Preprocess

ScanStepNext ==
    \/ ScanIteration
    \/ BraceIteration
    \/ StringIteration
    \/ ScanReturned

\* An iteration of one of the loops.
ScanSteps == ScanIteration \/ BraceIteration \/ StringIteration

\* The step in which preprocess_expressions returns.
PreprocessReturns == scan.fn = "returned" /\ pc = "start" /\ pc' = "done"

\* The code runs on: from one iteration to the next, and from the return of
\* scan_expressions to the return of preprocess_expressions.
SpecScan ==
    InitScan /\ [][ScanStepNext]_vars /\ WF_vars(ScanSteps) /\ WF_pc(PreprocessReturns)

\* C28: every byte an iteration reads lies in the text, also when a
\* backslash is the last byte of an unterminated string; each iteration of
\* find_matching_brace moves its cursor forward, each iteration of
\* scan_expressions leaves the cursor one byte further or at the end of the
\* match it recorded, beyond the opener; and preprocess_expressions
\* returns in the end.
C28_ScanTerminates ==
    /\ [](pc = "start" => \A r \in scan.reads : 0 <= r /\ r < Len(text))
    /\ [][/\ (scan.fn \in {"find_matching_brace", "string"}
              /\ scan'.fn \in {"find_matching_brace", "string"})
             => scan'.j > scan.j
          /\ (scan.fn # "returned" /\ scan'.fn = "scan_expressions")
             => \/ scan'.i = scan.i + 1 /\ scan'.matches = scan.matches
                \/ /\ Len(scan'.matches) = Len(scan.matches) + 1
                   /\ scan'.matches[Len(scan'.matches)].start = scan.i
                   /\ scan'.matches[Len(scan'.matches)].end = scan'.i
                   /\ scan'.i > scan.i + 1
          /\ (scan.fn = "scan_expressions" /\ scan'.fn = "find_matching_brace")
             => scan'.i = scan.i /\ scan'.j > scan.i
          /\ (scan'.fn = "returned" /\ scan.fn # "returned")
             => scan.i >= Len(text) /\ scan.matches = scan_expressions(text)
         ]_vars
    /\ <>(pc = "done")

\* The scan has returned from a text that ends in a backslash inside an
\* unterminated string, and preprocess_expressions has returned.
C28_Witness ==
    /\ pc = "done"
    /\ scan.fn = "returned"
    /\ Len(text) >= 4
    /\ text[Len(text)] = "\\"
    /\ text[Len(text) - 1] = "\""
    /\ \A k \in 1..(Len(text) - 2) : text[k] \notin {"\"", "'"}
    /\ expressions = <<>>

====
